---- MODULE Spec2Model ----
(***************************************************************************)
(* The plan execution engine of the orchestrator                           *)
(* (src/orchestrator/executor.py) and the plan validator                   *)
(* (src/orchestrator/run_agent.py, src/orchestrator/run_llm.py).           *)
(*                                                                         *)
(* execute_plan is a coroutine on a single asyncio event loop.  Between    *)
(* two awaits a coroutine runs without interruption, so every action below *)
(* is one such segment: the coordinator from one gather to the next, a     *)
(* step's task from one await to the next.  Tools run in worker threads    *)
(* (asyncio.to_thread) and finish in any order.                            *)
(*                                                                         *)
(* Strings that the code parses are sequences of tokens: "$s1.f" is        *)
(* <<"$", "s1", ".", "f">>.  Python values are tagged records.             *)
(***************************************************************************)
EXTENDS Integers, Sequences, FiniteSets, TLC

\* ------------------------------------------------------------------ bounds
MaxSteps == 3
MaxCap == 2
MaxRefLen == 5
MaxValSteps == 2
MaxDepLen == 2

\* ------------------------------------------------------------------ values
IdNames == <<"s1", "s2", "s3", "s4", "s5">>
StepIds == {IdNames[i] : i \in 1..MaxSteps}
Ghost == "ghost"

Str(s) == [t |-> "str", s |-> s]
Lit == Str(<<"lit">>)
Ref(id) == Str(<<"$", id>>)
FieldRef(id, f) == Str(<<"$", id, ".", f>>)
ListV(items) == [t |-> "list", items |-> items]
DictV(m) == [t |-> "dict", m |-> m]
DataclassV(m) == [t |-> "dataclass", m |-> m]
IntV(n) == [t |-> "int", n |-> n]
BoolV(b) == [t |-> "bool", b |-> b]

NoArgs == << >>
Arg(k, v) == [k |-> k, v |-> v]

NoExc == [type |-> "none", kind |-> "none", mentions |-> {}, cause |-> "none"]
Exc(type, kind, mentions, cause) ==
    [type |-> type, kind |-> kind, mentions |-> mentions, cause |-> cause]

Raise(e) == [ok |-> FALSE, exc |-> e]
Return(v) == [ok |-> TRUE, val |-> v]

\* ---------------------------------------------------------------- resolver
\* split(".", 1): at most one split.
SplitDotOnce(s) ==
    IF \A i \in 1..Len(s) : s[i] # "."
    THEN <<s>>
    ELSE LET i == CHOOSE j \in 1..Len(s) :
                     s[j] = "." /\ \A h \in 1..(j - 1) : s[h] # "."
         IN <<SubSeq(s, 1, i - 1), SubSeq(s, i + 1, Len(s))>>

\* str.split("."): the parts between the "." tokens; "" splits into [""].
RECURSIVE SplitDot(_)
SplitDot(s) ==
    IF \A i \in 1..Len(s) : s[i] # "."
    THEN <<s>>
    ELSE LET i == CHOOSE j \in 1..Len(s) :
                     s[j] = "." /\ \A h \in 1..(j - 1) : s[h] # "."
         IN <<SubSeq(s, 1, i - 1)>> \o SplitDot(SubSeq(s, i + 1, Len(s)))

\* The name a part spells: one token is that name; the empty string and
\* a run of several tokens are names of their own, never a step ID or field.
NameOf(part) ==
    IF Len(part) = 1 THEN part[1] ELSE IF part = << >> THEN "" ELSE "?"

\* What every Python object has besides its own fields: hasattr(value,
\* "__class__") holds of any value, and getattr gives its class.
ObjectAttributes == {"__class__"}
TypeV == [t |-> "type"]

\* hasattr(value, field) and getattr(value, field) on a dataclass instance.
HasAttr(value, field) == field \in DOMAIN value.m \cup ObjectAttributes
GetAttr(value, field) == IF field \in DOMAIN value.m THEN value.m[field] ELSE TypeV

\* for field in parts[1:]  (lines 251-264)
RECURSIVE Navigate(_, _, _)
Navigate(value, fields, step_id) ==
    IF fields = << >> THEN Return(value)
    ELSE LET field == NameOf(Head(fields)) IN
         IF value.t = "dict"
         THEN IF field \notin DOMAIN value.m
              THEN Raise(Exc("KeyError", "field_not_found",
                             {<<"field", field>>, <<"step", step_id>>}, "none"))
              ELSE Navigate(value.m[field], Tail(fields), step_id)
         ELSE IF value.t = "dataclass"
         THEN IF ~HasAttr(value, field)
              THEN Raise(Exc("KeyError", "field_not_found",
                             {<<"field", field>>, <<"step", step_id>>}, "none"))
              ELSE Navigate(GetAttr(value, field), Tail(fields), step_id)
         ELSE Raise(Exc("TypeError", "not_a_record",
                        {<<"field", field>>, <<"step", step_id>>}, "none"))

\* A lookup that takes every step ID as present, with no result.
_resolve_variableUnchecked(var_ref, res) ==
    LET parts == SplitDot(Tail(var_ref))
        step_id == NameOf(parts[1])
    IN IF step_id \notin DOMAIN res
       THEN Navigate([t |-> "none"], Tail(parts), step_id)
       ELSE Navigate(res[step_id], Tail(parts), step_id)

\* _resolve_variable(var_ref, results)
_resolve_variable(var_ref, res) ==
    LET var_path == Tail(var_ref)
        parts == SplitDot(var_path)
        step_id == NameOf(parts[1])
    IN IF step_id \notin DOMAIN res
       THEN Raise(Exc("KeyError", "step_not_found", {<<"step", step_id>>}, "none"))
       ELSE Navigate(res[step_id], Tail(parts), step_id)

\* isinstance(value, str) and value.startswith("$")
IsRef(value) == value.t = "str" /\ Len(value.s) >= 1 /\ value.s[1] = "$"

\* A comprehension that filters: [resolve(item) for item in value if
\* item is a reference] keeps the references only.
RECURSIVE ResolveItemsFiltered(_, _)
ResolveItemsFiltered(items, res) ==
    IF items = << >> THEN Return(<< >>)
    ELSE LET rest == ResolveItemsFiltered(Tail(items), res) IN
         IF ~IsRef(Head(items)) THEN rest
         ELSE LET first == _resolve_variable(Head(items).s, res)
              IN IF ~first.ok THEN first
                 ELSE IF ~rest.ok THEN rest
                 ELSE Return(<<first.val>> \o rest.val)

\* The list comprehension of lines 213-217: the first failing item raises.
RECURSIVE ResolveItems(_, _)
ResolveItems(items, res) ==
    IF items = << >> THEN Return(<< >>)
    ELSE LET item == Head(items)
             first == IF IsRef(item) THEN _resolve_variable(item.s, res)
                      ELSE Return(item)
         IN IF ~first.ok THEN first
            ELSE LET rest == ResolveItems(Tail(items), res)
                 IN IF ~rest.ok THEN rest
                    ELSE Return(<<first.val>> \o rest.val)

\* A resolver that passes every value through as written.
ResolveValueLiteral(value, res) == Return(value)

\* A resolver that looks inside mappings: a reference that is a value of a
\* dict argument is replaced as well.
ResolveValueDeep(value, res) ==
    IF IsRef(value) THEN _resolve_variable(value.s, res)
    ELSE IF value.t = "list"
         THEN LET r == ResolveItems(value.items, res)
              IN IF r.ok THEN Return(ListV(r.val)) ELSE r
    ELSE IF value.t = "dict"
         THEN IF \E k \in DOMAIN value.m :
                    IsRef(value.m[k]) /\ ~_resolve_variable(value.m[k].s, res).ok
              THEN _resolve_variable(
                       value.m[CHOOSE k \in DOMAIN value.m :
                                   IsRef(value.m[k])
                                   /\ ~_resolve_variable(value.m[k].s, res).ok].s, res)
              ELSE Return(DictV([k \in DOMAIN value.m |->
                                    IF IsRef(value.m[k])
                                    THEN _resolve_variable(value.m[k].s, res).val
                                    ELSE value.m[k]]))
    ELSE Return(value)

\* Lines 208-219: one value of the arguments.
ResolveValue(value, res) ==
    IF IsRef(value) THEN _resolve_variable(value.s, res)
    ELSE IF value.t = "list"
         THEN LET r == ResolveItems(value.items, res)
              IN IF r.ok THEN Return(ListV(r.val)) ELSE r
         ELSE Return(value)

\* A resolver that writes each resolved value back under its key
\* (arguments[key] = ... in place of resolved[key] = ...).
ResolveEffectInPlace(arguments, res) ==
    [arguments |->
        [k \in 1..Len(arguments) |->
            IF IsRef(arguments[k].v) /\ _resolve_variable(arguments[k].v.s, res).ok
            THEN Arg(arguments[k].k, _resolve_variable(arguments[k].v.s, res).val)
            ELSE arguments[k]],
     results |-> res]

\* What _resolve_arguments leaves of its two inputs: lines 205-221 assign to
\* the new dict `resolved` only, and the comprehension of 213-217 builds a
\* new list.
ResolveEffect(arguments, res) == [arguments |-> arguments, results |-> res]

\* _resolve_arguments(arguments, results): arguments in insertion order.
RECURSIVE _resolve_arguments(_, _)
_resolve_arguments(arguments, res) ==
    IF arguments = << >> THEN Return(<< >>)
    ELSE LET first == ResolveValue(Head(arguments).v, res)
         IN IF ~first.ok THEN first
            ELSE LET rest == _resolve_arguments(Tail(arguments), res)
                 IN IF ~rest.ok THEN rest
                    ELSE Return(<<Arg(Head(arguments).k, first.val)>> \o rest.val)

\* ---------------------------------------------------------------- registry
\* SERVER_REGISTRY is a dict of the registry module, server name -> server,
\* a server being modelled by the names get_tools() gives.  The engine's
\* tests clear it and install one server whose tools are plain functions
\* (setup_mock_registry).
TestTools == {"append_a", "append_b", "make_record", "fail"}
MockRegistry == [s \in {"test_server"} |-> TestTools]

\* The tools the gateway registers (@mcp.tool() in mcp_gateway/server.py).
GatewayTools ==
    {"parse_syllabus", "answer_syllabus_question",
     "create_academic_plan", "show_assignment_summary",
     "create_calendar_event", "create_reminder", "create_calendar_events_bulk",
     "create_reminders_bulk", "list_calendar_events", "list_reminders",
     "show_calendar_events", "show_reminders",
     "get_gateway_info", "list_available_tools"}

\* registry/__init__.py, lines 6-10: three names, each the gateway.
GatewayRegistry ==
    [s \in {"syllabus_server", "productivity_server", "academic_planner_server"} |->
        GatewayTools]

\* registry/__init__.py, lines 20-39 and 43: tool_service_mapping.get(
\* tool_key, "unknown_server").
tool_service_mapping(tool_key) ==
    CASE tool_key \in {"parse_syllabus", "answer_syllabus_question"} -> "syllabus_server"
      [] tool_key \in {"create_academic_plan", "show_assignment_summary"} ->
           "academic_planner_server"
      [] tool_key \in {"create_calendar_event", "create_reminder",
                       "create_calendar_events_bulk", "create_reminders_bulk",
                       "list_calendar_events", "list_reminders",
                       "show_calendar_events", "show_reminders"} -> "productivity_server"
      [] tool_key \in {"get_gateway_info", "list_available_tools"} -> "gateway"
      [] OTHER -> "unknown_server"

ComplexResult ==
    DataclassV([field1 |-> Str(<<"value1">>),
                field2 |-> DictV([nested |-> Str(<<"nested_value">>)])])

\* What a tool prints of an argument (an f-string): a string is its text.
Text(v) == IF v.t = "str" THEN v.s ELSE <<"obj">>

\* The text of the first argument, "" when the step passes none.
InputText(args) == IF args = << >> THEN << >> ELSE Text(args[1].v)

\* actual_func(**resolved_args)
ToolCall(tool_name, args) ==
    CASE tool_name = "append_a" -> Return(Str(InputText(args) \o <<"a">>))
      [] tool_name = "append_b" -> Return(Str(InputText(args) \o <<"b">>))
      [] tool_name = "make_record" -> Return(ComplexResult)
      [] tool_name \in GatewayTools -> Return(DataclassV([field1 |-> Str(<<tool_name>>)]))
      [] OTHER -> Raise(Exc("ValueError", "tool_raised",
                               {<<"text", "Intentional failure">>}, "none"))

\* ------------------------------------------------------------------ state
VARIABLES
    plan,            \* the ExecutionPlan's steps (input)
    max_concurrent,  \* Optional[int]: << >> is None, <<k>> is k (input)
    has_callback,    \* progress_callback is not None (input)
    pc,              \* execute_plan: "start", "gather", "returned", "failed"
    results,         \* results: step ID -> result
    completed,       \* completed: set of step IDs
    wave,            \* executable_steps of the running wave (indices into plan)
    task,            \* the _execute_step task of each step (wave_no: the gather it is of)
    semaphore,       \* << >> is None, <<v>> is a Semaphore whose value is v
    waiters,         \* tasks blocked in semaphore.acquire(), first in first
    gather_exc,      \* the exception asyncio.gather has taken from a task
    error,           \* the exception execute_plan raised
    cb_start,        \* per step: the progress calls made by _execute_step
    cb_done,         \* per step: the progress calls made by execute_plan
    loop,            \* the while loop: bodies entered (passes), gathers made (waves)
    twin,            \* a run and its re-run with the callback the other way round
    var_ref,         \* _resolve_variable called on its own: its var_ref (input)
    resolved,        \* ... and what it returned or raised
    available_tools, \* validate_execution_plan: its available_tools (input)
    errors,          \* ... and the list it returned
    SERVER_REGISTRY  \* registry.SERVER_REGISTRY: server name -> its tools' names

vars == <<plan, max_concurrent, has_callback, pc, results, completed, wave,
          task, semaphore, waiters, gather_exc, error, cb_start, cb_done, loop,
          twin, var_ref, resolved, available_tools, errors, SERVER_REGISTRY>>

\* What execute_plan never touches.
others == <<var_ref, resolved, available_tools, errors, SERVER_REGISTRY>>

Steps == 1..Len(plan)
None == [t |-> "none"]
NoResults == [id \in {} |-> None]

NoLoop == [passes |-> 0, waves |-> 0]
NoTwin == [mode |-> "single", pos |-> 0, trace |-> << >>]

IdleTask == [phase |-> "idle", step_number |-> 0, wave_no |-> 0, args |-> NoArgs,
             ncalls |-> 0, result |-> None, exc |-> NoExc]

ExecutionStep(id, service_name, tool_name, arguments, depends_on) ==
    [id |-> id, service_name |-> service_name, tool_name |-> tool_name,
     arguments |-> arguments, depends_on |-> depends_on]

\* Elements of a sequence.
Range(s) == {s[i] : i \in 1..Len(s)}

\* ------------------------------------------------------------- coordinator
\* A ready test that forgets the dependencies.
ReadyNoDeps(i, comp) == plan[i].id \notin comp

\* A ready test without lines 59-60: a completed step is ready again.
ReadyAgain(i, comp) == \A dep \in Range(plan[i].depends_on) : dep \in comp

\* A ready test that takes a step's dependency on itself as met.
ReadySelfMet(i, comp) ==
    /\ plan[i].id \notin comp
    /\ \A dep \in Range(plan[i].depends_on) : dep \in comp \cup {plan[i].id}

\* A ready test with any() in place of all(): one completed dependency is
\* enough.
ReadyAnyDep(i, comp) ==
    /\ plan[i].id \notin comp
    /\ \/ plan[i].depends_on = << >>
       \/ \E dep \in Range(plan[i].depends_on) : dep \in comp

\* Lines 57-64: the steps not yet completed whose dependencies all are,
\* in plan order.
Ready(i, comp) ==
    /\ plan[i].id \notin comp
    /\ \A dep \in Range(plan[i].depends_on) : dep \in comp

RECURSIVE ReadyFrom(_, _)
ReadyFrom(i, comp) ==
    IF i > Len(plan) THEN << >>
    ELSE (IF Ready(i, comp) THEN <<i>> ELSE << >>) \o ReadyFrom(i + 1, comp)

\* A sequential engine: one ready step per pass.
executable_stepsFirstOnly(comp) ==
    IF ReadyFrom(1, comp) = << >> THEN << >> ELSE <<Head(ReadyFrom(1, comp))>>

\* A limit that cuts the wave: only the first max_concurrent ready steps are
\* launched, the rest wait for a later wave.
executable_stepsUpToCap(comp) ==
    IF max_concurrent = << >> \/ max_concurrent[1] = 0
    THEN ReadyFrom(1, comp)
    ELSE SubSeq(ReadyFrom(1, comp), 1,
                IF Len(ReadyFrom(1, comp)) < max_concurrent[1]
                THEN Len(ReadyFrom(1, comp)) ELSE max_concurrent[1])

executable_steps(comp) == ReadyFrom(1, comp)

\* Line 68: remaining = [s.id for s in plan.steps if s.id not in completed]
Remaining(comp) == {plan[i].id : i \in {j \in Steps : plan[j].id \notin comp}}

DeadlockError(comp) ==
    Exc("RuntimeError", "deadlock", {<<"step", id>> : id \in Remaining(comp)}, "none")

\* Numbering from the 0-based place in the wave.
StepNumberZeroBased(comp, place) == Cardinality(comp) + (place - 1)

\* Line 78: step_number = len(completed) + i + 1, i the 0-based place in the wave.
StepNumber(comp, place) == Cardinality(comp) + (place - 1) + 1

PlaceIn(w, i) == CHOOSE p \in 1..Len(w) : w[p] = i

\* A semaphore for every max_concurrent that is not None.
NewSemaphoreUnlessNone(mc) == IF mc # << >> THEN <<mc[1]>> ELSE << >>

\* Line 52: asyncio.Semaphore(max_concurrent) if max_concurrent else None
NewSemaphore(mc) == IF mc # << >> /\ mc[1] # 0 THEN <<mc[1]>> ELSE << >>

\* A progress callback that is never called.
NotifyNever(log, i, call) == log

\* Lines 98-99 and 136-137: if progress_callback: progress_callback(...)
Notify(log, i, call) ==
    IF has_callback THEN [log EXCEPT ![i] = Append(@, call)] ELSE log

\* A join that stores the results and marks nothing completed.
RECURSIVE FoldResultsOnly(_, _, _, _)
FoldResultsOnly(w, res, comp, log) ==
    IF w = << >> THEN [results |-> res, completed |-> comp, cb_done |-> log]
    ELSE LET id == plan[Head(w)].id
             result == task[Head(w)].result
             res2 == [k \in DOMAIN res \cup {id} |-> IF k = id THEN result ELSE res[k]]
         IN FoldResultsOnly(Tail(w), res2, comp, log)

\* A join with line 94 inside the if of line 98: a result is stored only
\* when there is a callback to report it to.
RECURSIVE FoldInsideHook(_, _, _, _)
FoldInsideHook(w, res, comp, log) ==
    IF w = << >> THEN [results |-> res, completed |-> comp, cb_done |-> log]
    ELSE LET id == plan[Head(w)].id
             result == task[Head(w)].result
             res2 == IF has_callback
                     THEN [k \in DOMAIN res \cup {id} |-> IF k = id THEN result ELSE res[k]]
                     ELSE res
             comp2 == comp \cup {id}
             call == [num |-> Cardinality(comp2), total |-> Len(plan), result |-> result]
         IN FoldInsideHook(Tail(w), res2, comp2, Notify(log, Head(w), call))

\* A join that starts a fresh map at every wave: results = {} inside the loop.
RECURSIVE FoldFreshMap(_, _, _, _)
FoldFreshMap(w, res, comp, log) ==
    IF w = << >> THEN [results |-> res, completed |-> comp, cb_done |-> log]
    ELSE LET id == plan[Head(w)].id
             result == task[Head(w)].result
             kept == DOMAIN res \cap {plan[j].id : j \in Range(wave)}
             res2 == [k \in kept \cup {id} |-> IF k = id THEN result ELSE res[k]]
             comp2 == comp \cup {id}
             call == [num |-> Cardinality(comp2), total |-> Len(plan), result |-> result]
         IN FoldFreshMap(Tail(w), res2, comp2, Notify(log, Head(w), call))

\* A join that reports a step's place in its wave: enumerate(..., 1) in
\* place of len(completed).
RECURSIVE FoldPlaceInWave(_, _, _, _)
FoldPlaceInWave(w, res, comp, log) ==
    IF w = << >> THEN [results |-> res, completed |-> comp, cb_done |-> log]
    ELSE LET id == plan[Head(w)].id
             result == task[Head(w)].result
             res2 == [k \in DOMAIN res \cup {id} |-> IF k = id THEN result ELSE res[k]]
             call == [num |-> PlaceIn(wave, Head(w)), total |-> Len(plan), result |-> result]
         IN FoldPlaceInWave(Tail(w), res2, comp \cup {id}, Notify(log, Head(w), call))

\* Lines 93-99 over zip(executable_steps, step_results), in order.  A
\* completion call is kept with the keys results had when it was made.
RECURSIVE Fold(_, _, _, _)
Fold(w, res, comp, log) ==
    IF w = << >> THEN [results |-> res, completed |-> comp, cb_done |-> log]
    ELSE LET i == Head(w)
             id == plan[i].id
             result == task[i].result
             res2 == [k \in DOMAIN res \cup {id} |-> IF k = id THEN result ELSE res[k]]
             comp2 == comp \cup {id}
             call == [num |-> Cardinality(comp2), total |-> Len(plan), result |-> result,
                      recorded |-> DOMAIN res2]
             log2 == Notify(log, i, call)
         IN Fold(Tail(w), res2, comp2, log2)

\* A loop without the check of lines 66-72: with nothing ready it gathers
\* an empty wave and comes round again.
LoopIterationUnchecked(comp) ==
    IF Cardinality(comp) < Len(plan)
    THEN LET w == executable_steps(comp) IN
         /\ pc' = "gather"
         /\ wave' = w
         /\ task' = [i \in Steps |->
                       IF i \in Range(w)
                       THEN [task[i] EXCEPT !.phase = "new",
                                            !.step_number = StepNumber(comp, PlaceIn(w, i)),
                                                 !.wave_no = loop.waves + 1]
                       ELSE task[i]]
         /\ gather_exc' = NoExc
         /\ loop' = IF w = << >> THEN loop
                    ELSE [passes |-> loop.passes + 1, waves |-> loop.waves + 1]
         /\ UNCHANGED error
    ELSE /\ pc' = "returned"
         /\ UNCHANGED <<wave, task, gather_exc, error, loop>>

\* The loop as a do-while: the body is entered once before the test.
LoopIterationAtLeastOnce(comp) ==
    IF Cardinality(comp) < Len(plan) \/ loop.passes = 0
    THEN LET w == executable_steps(comp) IN
         IF w = << >>
         THEN /\ pc' = "failed"
              /\ error' = DeadlockError(comp)
              /\ loop' = [loop EXCEPT !.passes = @ + 1]
              /\ UNCHANGED <<wave, task, gather_exc>>
         ELSE /\ pc' = "gather"
              /\ wave' = w
              /\ task' = [i \in Steps |->
                            IF i \in Range(w)
                            THEN [task[i] EXCEPT !.phase = "new",
                                                 !.step_number = StepNumber(comp, PlaceIn(w, i)),
                                                 !.wave_no = loop.waves + 1]
                            ELSE task[i]]
              /\ gather_exc' = NoExc
              /\ loop' = [passes |-> loop.passes + 1, waves |-> loop.waves + 1]
              /\ UNCHANGED error
    ELSE /\ pc' = "returned"
         /\ UNCHANGED <<wave, task, gather_exc, error, loop>>

\* Lines 55-90: one pass of the while loop from its test to the gather, the
\* return or the raise.
LoopIteration(comp) ==
    IF Cardinality(comp) < Len(plan)
    THEN LET w == executable_steps(comp) IN
         IF w = << >>
         THEN /\ pc' = "failed"
              /\ error' = DeadlockError(comp)
              /\ loop' = [loop EXCEPT !.passes = @ + 1]
              /\ UNCHANGED <<wave, task, gather_exc>>
         ELSE /\ pc' = "gather"
              /\ wave' = w
              /\ task' = [i \in Steps |->
                            IF i \in Range(w)
                            THEN [task[i] EXCEPT !.phase = "new",
                                                 !.step_number = StepNumber(comp, PlaceIn(w, i)),
                                                 !.wave_no = loop.waves + 1]
                            ELSE task[i]]
              /\ gather_exc' = NoExc
              /\ loop' = [passes |-> loop.passes + 1, waves |-> loop.waves + 1]
              /\ UNCHANGED error
    ELSE /\ pc' = "returned"
         /\ UNCHANGED <<wave, task, gather_exc, error, loop>>

\* execute_plan is called: lines 43-90.
Start ==
    /\ pc = "start"
    /\ semaphore' = NewSemaphore(max_concurrent)
    /\ LoopIteration(completed)
    /\ UNCHANGED <<others, plan, max_concurrent, has_callback, results, completed,
                   waiters, cb_start, cb_done>>

\* A wait that returns with the first step to finish
\* (return_when=FIRST_COMPLETED): the join runs with the rest in flight.
JoinWaveFirstCompleted ==
    /\ pc = "gather"
    /\ gather_exc = NoExc
    /\ \E i \in Range(wave) : task[i].phase = "done"
    /\ LET f == Fold(wave, results, completed, cb_done) IN
         /\ results' = f.results
         /\ completed' = f.completed
         /\ cb_done' = f.cb_done
         /\ LoopIteration(f.completed)
    /\ UNCHANGED <<others, plan, max_concurrent, has_callback, semaphore, waiters, cb_start>>

\* gather delivers the list of results: lines 90-99, then the loop again.
JoinWave ==
    /\ pc = "gather"
    /\ gather_exc = NoExc
    /\ \A i \in Range(wave) : task[i].phase = "done"
    /\ LET f == Fold(wave, results, completed, cb_done) IN
         /\ results' = f.results
         /\ completed' = f.completed
         /\ cb_done' = f.cb_done
         /\ LoopIteration(f.completed)
    /\ UNCHANGED <<others, plan, max_concurrent, has_callback, semaphore, waiters, cb_start>>

\* gather schedules every task of the wave before execute_plan yields, and
\* the loop runs callbacks first in, first out: the first segments of the
\* wave's tasks run in the order of the wave, before the resumption of any
\* task and before any callback that a task's end schedules.
FirstSegmentsRun == \A i \in Range(wave) : task[i].phase # "new"

\* release() has handed a slot to the first waiter, which has yet to run.
WakeupPending == semaphore # << >> /\ waiters # << >> /\ semaphore[1] > 0

\* An engine that hands back what it has when a step fails.
RaiseFromGatherPartial ==
    /\ pc = "gather"
    /\ gather_exc # NoExc
    /\ pc' = "returned"
    /\ error' = gather_exc
    /\ UNCHANGED <<others, plan, max_concurrent, has_callback, results, completed, wave,
                   task, semaphore, waiters, gather_exc, cb_start, cb_done, loop>>

\* gather delivers the first exception of a task: line 90 raises it.  The
\* task's done callback was scheduled after the wakeup of the waiter that its
\* release() let in.
RaiseFromGather ==
    /\ pc = "gather"
    /\ gather_exc # NoExc
    /\ FirstSegmentsRun
    /\ ~WakeupPending
    /\ pc' = "failed"
    /\ error' = gather_exc
    /\ UNCHANGED <<others, plan, max_concurrent, has_callback, results, completed, wave,
                   task, semaphore, waiters, gather_exc, cb_start, cb_done, loop>>

\* ------------------------------------------------------------------- tasks
Holding(i) == task[i].phase \in {"get_tools", "in_flight"}
InFlight(i) == task[i].phase = "in_flight"

\* A semaphore that wakes its waiters without a free slot.
LockedNever == FALSE

\* An acquire() that takes no slot.
AcquiredNothing(sem) == sem

\* Line 132 when it does not block: the semaphore after acquire().
Acquired(sem) == IF sem = << >> THEN sem ELSE <<sem[1] - 1>>
\* A step that ends without line 184: no slot comes back.
ReleasedNothing(sem) == sem

\* Line 184: the semaphore after release().
Released(sem) == IF sem = << >> THEN sem ELSE <<sem[1] + 1>>

\* The task ends with an exception; gather keeps the first one of the wave.
Fails(i, e, args) ==
    /\ task' = [task EXCEPT ![i].phase = "failed", ![i].exc = e, ![i].args = args]
    /\ gather_exc' = IF gather_exc = NoExc THEN e ELSE gather_exc

ServerNotFound(step) ==
    Exc("RuntimeError", "server_not_found",
        {<<"service", step.service_name>>}
            \cup {<<"known_server", s>> : s \in DOMAIN SERVER_REGISTRY}, "none")

ToolNotFound(step) ==
    Exc("RuntimeError", "tool_not_found",
        {<<"tool", step.tool_name>>, <<"service", step.service_name>>}
            \cup {<<"known_tool", x>> : x \in SERVER_REGISTRY[step.service_name]}, "none")

\* The tool's exception let through as it is.
StepErrorBare(step, e) == e

\* Lines 177-180: the wrapper names the step, the service and the tool, ends
\* with str(e), and is raised from e.
StepError(step, e) ==
    Exc("RuntimeError", "step_error",
        {<<"step", step.id>>, <<"service", step.service_name>>,
         <<"tool", step.tool_name>>} \cup e.mentions, e.type)

\* The body resolving against the results of every step whose tool has
\* returned, recorded or not.
BodySeesFinished(i, sem) ==
    LET step == plan[i]
        call == [num |-> task[i].step_number, total |-> Len(plan), result |-> None]
        done == {j \in Steps : task[j].phase = "done"}
        seen == [id \in DOMAIN results \cup {plan[j].id : j \in done} |->
                   IF id \in DOMAIN results THEN results[id]
                   ELSE task[CHOOSE j \in done : plan[j].id = id].result]
        r == _resolve_arguments(step.arguments, seen)
    IN /\ cb_start' = Notify(cb_start, i, call)
       /\ UNCHANGED <<plan, results>>
       /\ IF ~r.ok
          THEN Fails(i, r.exc, NoArgs) /\ semaphore' = Released(sem)
          ELSE IF step.service_name \notin DOMAIN SERVER_REGISTRY
          THEN Fails(i, ServerNotFound(step), r.val) /\ semaphore' = Released(sem)
          ELSE /\ task' = [task EXCEPT ![i].phase = "get_tools", ![i].args = r.val]
               /\ semaphore' = sem
               /\ UNCHANGED gather_exc

\* Lines 135-151 with the slot taken: the start callback, the resolution
\* (with what it leaves of the step's arguments and of results) and the
\* server lookup, up to the await of get_tools().  `sem` is the semaphore
\* with this task's slot taken.
Body(i, sem) ==
    LET step == plan[i]
        call == [num |-> task[i].step_number, total |-> Len(plan), result |-> None]
        r == _resolve_arguments(step.arguments, results)
        left == ResolveEffect(step.arguments, results)
    IN /\ cb_start' = Notify(cb_start, i, call)
       /\ plan' = [plan EXCEPT ![i].arguments = left.arguments]
       /\ results' = left.results
       /\ IF ~r.ok
          THEN Fails(i, r.exc, NoArgs) /\ semaphore' = Released(sem)
          ELSE IF step.service_name \notin DOMAIN SERVER_REGISTRY
          THEN Fails(i, ServerNotFound(step), r.val) /\ semaphore' = Released(sem)
          ELSE /\ task' = [task EXCEPT ![i].phase = "get_tools", ![i].args = r.val]
               /\ semaphore' = sem
               /\ UNCHANGED gather_exc

\* Semaphore.locked(): no slot is free, or an earlier task is waiting.
Locked == semaphore # << >> /\ (semaphore[1] = 0 \/ waiters # << >>)

\* The task's first segment: lines 130-151, or up to a blocking acquire().
TaskRun(i) ==
    /\ task[i].phase = "new"
    /\ \A p \in 1..(PlaceIn(wave, i) - 1) : task[wave[p]].phase # "new"
    /\ IF Locked
       THEN /\ task' = [task EXCEPT ![i].phase = "queued"]
            /\ waiters' = Append(waiters, i)
            /\ UNCHANGED <<plan, results, semaphore, gather_exc, cb_start>>
       ELSE /\ Body(i, Acquired(semaphore))
            /\ UNCHANGED waiters
    /\ UNCHANGED <<others, max_concurrent, has_callback, pc, completed,
                   wave, error, cb_done, loop>>

\* A released slot goes to the first waiter: acquire() returns, lines 134-151.
TaskAdmit(i) ==
    /\ task[i].phase = "queued"
    /\ FirstSegmentsRun
    /\ waiters # << >> /\ Head(waiters) = i
    /\ semaphore[1] > 0
    /\ waiters' = Tail(waiters)
    /\ Body(i, Acquired(semaphore))
    /\ UNCHANGED <<others, max_concurrent, has_callback, pc, completed,
                   wave, error, cb_done, loop>>

\* get_tools() has returned: lines 152-172, up to the await of the tool.
TaskInvoke(i) ==
    /\ task[i].phase = "get_tools"
    /\ FirstSegmentsRun
    /\ IF plan[i].tool_name \notin SERVER_REGISTRY[plan[i].service_name]
       THEN Fails(i, ToolNotFound(plan[i]), task[i].args) /\ semaphore' = Released(semaphore)
       ELSE /\ task' = [task EXCEPT ![i].phase = "in_flight", ![i].ncalls = @ + 1]
            /\ UNCHANGED <<semaphore, gather_exc>>
    /\ UNCHANGED <<others, plan, max_concurrent, has_callback, pc, results, completed,
                   wave, waiters, error, cb_start, cb_done, loop>>

\* A task that stores its result itself, as soon as its tool returns.
TaskFinishStoring(i) ==
    /\ task[i].phase = "in_flight"
    /\ FirstSegmentsRun
    /\ LET r == ToolCall(plan[i].tool_name, task[i].args) IN
         IF r.ok
         THEN /\ task' = [task EXCEPT ![i].phase = "done", ![i].result = r.val]
              /\ results' = [k \in DOMAIN results \cup {plan[i].id} |->
                               IF k = plan[i].id THEN r.val ELSE results[k]]
              /\ UNCHANGED gather_exc
         ELSE Fails(i, StepError(plan[i], r.exc), task[i].args) /\ UNCHANGED results
    /\ semaphore' = Released(semaphore)
    /\ UNCHANGED <<others, plan, max_concurrent, has_callback, pc, completed,
                   wave, waiters, error, cb_start, cb_done, loop>>

\* A task that reports its own completion as soon as its tool returns.
TaskFinishReporting(i) ==
    /\ task[i].phase = "in_flight"
    /\ FirstSegmentsRun
    /\ LET r == ToolCall(plan[i].tool_name, task[i].args) IN
         IF r.ok
         THEN /\ task' = [task EXCEPT ![i].phase = "done", ![i].result = r.val]
              /\ cb_done' = Notify(cb_done, i,
                                   [num |-> task[i].step_number, total |-> Len(plan),
                                    result |-> r.val, recorded |-> DOMAIN results])
              /\ UNCHANGED gather_exc
         ELSE Fails(i, StepError(plan[i], r.exc), task[i].args) /\ UNCHANGED cb_done
    /\ semaphore' = Released(semaphore)
    /\ UNCHANGED <<others, plan, max_concurrent, has_callback, pc, results, completed,
                   wave, waiters, error, cb_start, loop>>

\* The tool has returned or raised: lines 174-184.
TaskFinish(i) ==
    /\ task[i].phase = "in_flight"
    /\ FirstSegmentsRun
    /\ LET r == ToolCall(plan[i].tool_name, task[i].args) IN
         IF r.ok
         THEN /\ task' = [task EXCEPT ![i].phase = "done", ![i].result = r.val]
              /\ UNCHANGED gather_exc
         ELSE Fails(i, StepError(plan[i], r.exc), task[i].args)
    /\ semaphore' = Released(semaphore)
    /\ UNCHANGED <<others, plan, max_concurrent, has_callback, pc, results, completed,
                   wave, waiters, error, cb_start, cb_done, loop>>

\* ------------------------------------------------------------------ inputs
\* The plans execute_plan is run on.  Step i of a plan has the ID IdNames[i],
\* except in InitDuplicates.
\* Seven families, each exhaustive in what it varies:
\*   InitGraphs  every dependency graph over the plan's own steps;
\*   InitFaults  every mix of healthy, raising and unknown tools, over steps
\*               that depend on a neighbour or on an ID outside the plan;
\*   InitCaps    every max_concurrent, with and without a callback, over
\*               independent steps and steps fanning out of the first;
\*   InitData    every mix of whole-result and field references;
\*   InitShared  steps that read the same result in the same wave;
\*   InitDuplicates  plans with an ID used twice;
\*   InitSlots   every way a step can end, under every positive limit.
\*   InitReferences  a reference to any step of the plan, declared or not.
PlanIds(n) == {IdNames[i] : i \in 1..n}

\* A set of step IDs as a list, in plan order.
RECURSIVE SeqOf(_, _)
SeqOf(S, i) ==
    IF i > Len(IdNames) THEN << >>
    ELSE (IF IdNames[i] \in S THEN <<IdNames[i]>> ELSE << >>) \o SeqOf(S, i + 1)

\* The ID before and after step i; off the ends it is an ID no step has.
Prev(i) == IF i > 1 THEN IdNames[i - 1] ELSE Ghost
Succ(i, n) == IF i < n THEN IdNames[i + 1] ELSE Ghost

Caps == {<< >>} \cup {<<k>> : k \in 0..MaxCap}

InitRun ==
    /\ pc = "start"
    /\ results = NoResults
    /\ completed = {}
    /\ wave = << >>
    /\ task = [i \in Steps |-> IdleTask]
    /\ semaphore = << >>
    /\ waiters = << >>
    /\ gather_exc = NoExc
    /\ error = NoExc
    /\ cb_start = [i \in Steps |-> << >>]
    /\ cb_done = [i \in Steps |-> << >>]
    /\ loop = NoLoop
    /\ twin = NoTwin
    /\ var_ref = << >>
    /\ resolved = Return(None)
    /\ available_tools = << >>
    /\ errors = << >>

InitGraphs ==
    /\ \E n \in 0..MaxSteps :
         \E deps \in [1..n -> SUBSET PlanIds(n)] :
            plan = [i \in 1..n |->
                      ExecutionStep(IdNames[i], "test_server", "append_a", NoArgs,
                                    SeqOf(deps[i], 1))]
    /\ max_concurrent = << >>
    /\ has_callback = TRUE

FaultTools ==
    {<<"test_server", "append_a">>, <<"test_server", "fail">>,
     <<"test_server", "no_such_tool">>, <<"no_such_server", "append_a">>}

InitFaults ==
    /\ \E n \in 0..MaxSteps :
         \E dep \in [1..n -> {"none", "prev", "next"}], tool \in [1..n -> FaultTools] :
            plan = [i \in 1..n |->
                      ExecutionStep(IdNames[i], tool[i][1], tool[i][2], NoArgs,
                                    CASE dep[i] = "none" -> << >>
                                      [] dep[i] = "prev" -> <<Prev(i)>>
                                      [] OTHER -> <<Succ(i, n)>>)]
    /\ max_concurrent = << >>
    /\ has_callback = TRUE

InitCaps ==
    /\ \E n \in 0..MaxSteps :
         \E fan \in [1..n -> BOOLEAN], tool \in [1..n -> {"append_a", "fail"}] :
            plan = [i \in 1..n |->
                      ExecutionStep(IdNames[i], "test_server", tool[i], NoArgs,
                                    IF fan[i] /\ i > 1 THEN <<IdNames[1]>> ELSE << >>)]
    /\ max_concurrent \in Caps
    /\ has_callback \in BOOLEAN

DataTools == {"append_a", "append_b", "make_record"}
DataLinks == {"none", "whole", "field", "undeclared"}

InitData ==
    /\ \E n \in 0..MaxSteps :
         \E link \in [1..n -> DataLinks], tool \in [1..n -> DataTools] :
            plan = [i \in 1..n |->
                      ExecutionStep(IdNames[i], "test_server", tool[i],
                                    CASE link[i] = "none" -> NoArgs
                                      [] link[i] = "field" ->
                                           <<Arg("x", FieldRef(Prev(i), "field1"))>>
                                      [] OTHER -> <<Arg("x", Ref(Prev(i)))>>,
                                    IF link[i] \in {"whole", "field"}
                                    THEN <<Prev(i)>> ELSE << >>)]
    /\ max_concurrent = << >>
    /\ has_callback = TRUE

\* Steps that all follow the first: each passes nothing, the whole result
\* of the first, a field of it, or literals.
SharedLinks == {"none", "whole", "field", "literals"}

\* Arguments that are written out: a string, a number, and a mapping that
\* has the text of a reference as a value.
Literals(id) == <<Arg("x", Lit), Arg("n", IntV(1)), Arg("opts", DictV([k |-> Ref(id)]))>>

InitShared ==
    /\ \E n \in 0..MaxSteps :
         \E link \in [1..n -> SharedLinks], base \in {"append_a", "make_record"} :
            plan = [i \in 1..n |->
                      IF i = 1
                      THEN ExecutionStep(IdNames[1], "test_server", base, NoArgs, << >>)
                      ELSE ExecutionStep(IdNames[i], "test_server", "append_b",
                                         CASE link[i] = "none" -> NoArgs
                                           [] link[i] = "field" ->
                                                <<Arg("x", FieldRef(IdNames[1], "field1"))>>
                                           [] link[i] = "literals" -> Literals(IdNames[1])
                                           [] OTHER -> <<Arg("x", Ref(IdNames[1]))>>,
                                         <<IdNames[1]>>)]
    /\ max_concurrent \in {<< >>, <<1>>}
    /\ has_callback = TRUE

\* Plans in which two steps share an ID (nothing in ExecutionPlan forbids
\* it): each step is independent, depends on "s1" or on an ID no step has.
DuplicateDeps == {"none", "first", "absent"}

InitDuplicates ==
    /\ \E n \in 2..MaxSteps :
         \E ids \in [1..n -> {"s1", "s2"}], dep \in [1..n -> DuplicateDeps] :
            /\ \E i, j \in 1..n : i # j /\ ids[i] = ids[j]
            /\ plan = [i \in 1..n |->
                         ExecutionStep(ids[i], "test_server", "append_a", NoArgs,
                                       CASE dep[i] = "none" -> << >>
                                         [] dep[i] = "first" -> <<"s1">>
                                         [] OTHER -> <<Ghost>>)]
    /\ max_concurrent = << >>
    /\ has_callback = TRUE

\* Independent steps under a limit, each ending in one of the ways a step
\* can end: its tool returns, its tool raises, its tool or its service is
\* unknown, its argument does not resolve.
SlotEndings == {"returns", "raises", "no_tool", "no_service", "no_step"}

InitSlots ==
    /\ \E n \in 0..MaxSteps :
         \E ending \in [1..n -> SlotEndings] :
            plan = [i \in 1..n |->
                      ExecutionStep(IdNames[i],
                                    IF ending[i] = "no_service"
                                    THEN "no_such_server" ELSE "test_server",
                                    CASE ending[i] = "raises" -> "fail"
                                      [] ending[i] = "no_tool" -> "no_such_tool"
                                      [] OTHER -> "append_a",
                                    IF ending[i] = "no_step"
                                    THEN <<Arg("x", Ref(Ghost))>> ELSE NoArgs,
                                    << >>)]
    /\ max_concurrent \in {<<k>> : k \in 1..MaxCap}
    /\ has_callback = FALSE

\* Plans in which one step passes the whole result of a step of the plan
\* (itself included) whether it depends on it or not: each step depends on
\* the step before or on none, with no limit or one slot.
InitReferences ==
    /\ \E n \in 0..MaxSteps :
         \E chained \in [1..n -> BOOLEAN], s \in 0..n, x \in 0..n :
            /\ (s = 0) <=> (x = 0)
            /\ plan = [i \in 1..n |->
                         ExecutionStep(IdNames[i], "test_server", "append_a",
                                       IF i = s THEN <<Arg("x", Ref(IdNames[x]))>>
                                       ELSE NoArgs,
                                       IF chained[i] /\ i > 1
                                       THEN <<Prev(i)>> ELSE << >>)]
    /\ max_concurrent \in {<< >>, <<1>>}
    /\ has_callback = FALSE

\* Plans over the names of the gateway, run under the registry as the
\* module defines it: the first step names any server and any tool that
\* list_tool_schemas() or SERVER_REGISTRY has, or one that none has; the
\* steps after it name a tool under the server the catalog gives it.
GatewayServers == DOMAIN GatewayRegistry \cup {"gateway", "unknown_server"}
GatewayNames == GatewayTools \cup {"no_such_tool"}

InitGateway ==
    /\ \E n \in 0..MaxValSteps :
         \E service \in GatewayServers, name \in GatewayNames :
            plan = [i \in 1..n |->
                      IF i = 1
                      THEN ExecutionStep(IdNames[i], service, name, NoArgs, << >>)
                      ELSE ExecutionStep(IdNames[i], "syllabus_server", "parse_syllabus",
                                         NoArgs, << >>)]
    /\ max_concurrent = << >>
    /\ has_callback = FALSE
    /\ SERVER_REGISTRY = GatewayRegistry

\* setup_mock_registry({"test_server": {...}})
InitMock == SERVER_REGISTRY = MockRegistry

InitEngine ==
    \/ (InitGraphs \/ InitFaults \/ InitCaps \/ InitData \/ InitShared \/ InitDuplicates
           \/ InitSlots \/ InitReferences) /\ InitMock /\ InitRun
    \/ InitGateway /\ InitRun

\* ------------------------------------------------- _resolve_variable alone
\* Every reference of up to MaxRefLen tokens after the "$", resolved against
\* results maps holding a dataclass, a dict and a string.
RefAlphabet == {".", "s1", "field1", "field2", "nested"}

RefStrings ==
    UNION {{<<"$">> \o path : path \in [1..n -> RefAlphabet]} : n \in 0..MaxRefLen}

NestedDict ==
    DictV([field1 |-> DictV([nested |-> IntV(1)]), nested |-> ListV(<< >>)])

ResultMaps ==
    {NoResults} \cup {[id \in {"s1"} |-> v] : v \in {ComplexResult, NestedDict, Str(<<"a">>)}}

InitResolve ==
    /\ pc = "resolve"
    /\ var_ref \in RefStrings
    /\ results \in ResultMaps
    /\ resolved = Return(None)
    /\ plan = << >>
    /\ available_tools = << >>
    /\ errors = << >>

ResolveVariable ==
    /\ pc = "resolve"
    /\ resolved' = _resolve_variable(var_ref, results)
    /\ pc' = "resolved"
    /\ UNCHANGED <<plan, max_concurrent, has_callback, results, completed, wave,
                   task, semaphore, waiters, gather_exc, error, cb_start, cb_done, loop,
                   twin, SERVER_REGISTRY, var_ref, available_tools, errors>>

\* ------------------------------------------------- _resolve_arguments alone
\* Line 140 on its own: the arguments of one step, resolved against a results
\* map.  The step passes no argument, one, or two; a value is a literal (a
\* string, the empty one, one with a "$" inside, a number, a boolean), a
\* reference (whole, to a field, to a missing step, to a missing field,
\* through a string) or a list of up to MaxItems items, and an item can be
\* a list or a dict with a reference inside.
MaxItems == 2

ArgScalars ==
    {Lit, IntV(1), BoolV(TRUE), Str(<< >>), Str(<<"a", "$", "s1">>),
     Ref("s1"), Ref(Ghost), FieldRef("s1", "field1"),
     FieldRef("s1", "nope"), FieldRef(Ghost, "field1"), FieldRef("s1", "__class__"),
     Str(<<"$", "s1", ".", "field1", ".", "x">>)}

ArgItems ==
    {Lit, Ref("s1"), Ref(Ghost), FieldRef("s1", "nope"),
     ListV(<<Ref("s1")>>), DictV([k |-> Ref("s1")])}

ArgLists == UNION {{ListV(items) : items \in [1..n -> ArgItems]} : n \in 0..MaxItems}

ArgValues == ArgScalars \cup ArgLists \cup {DictV([k |-> Ref("s1")])}

ArgumentLists ==
    {NoArgs} \cup {<<Arg("x", a)>> : a \in ArgValues}
             \cup {<<Arg("x", a), Arg("y", b)>> : a \in ArgValues, b \in ArgScalars}

InitArguments ==
    /\ pc = "resolve_args"
    /\ \E args \in ArgumentLists :
         plan = <<ExecutionStep("s2", "test_server", "append_a", args, <<"s1">>)>>
    /\ results \in ResultMaps
    /\ resolved = Return(None)
    /\ var_ref = << >>
    /\ available_tools = << >>
    /\ errors = << >>

ResolveArguments ==
    /\ pc = "resolve_args"
    /\ resolved' = _resolve_arguments(plan[1].arguments, results)
    /\ plan' = [plan EXCEPT ![1].arguments = ResolveEffect(@, results).arguments]
    /\ results' = ResolveEffect(plan[1].arguments, results).results
    /\ pc' = "args_resolved"
    /\ UNCHANGED <<max_concurrent, has_callback, completed, wave,
                   task, semaphore, waiters, gather_exc, error, cb_start, cb_done, loop,
                   twin, SERVER_REGISTRY, var_ref, available_tools, errors>>

\* ------------------------------------------------------------ the validator
\* validate_execution_plan (the same text in run_agent.py and run_llm.py).
\* Names are token sequences, so that the key f"{server}.{name}" is a
\* concatenation.
Key(server, name) == server \o <<".">> \o name

\* Lines 179-183: the keys of tool_map.
ToolKeys(tools) == {Key(tools[k].server, tools[k].name) : k \in 1..Len(tools)}

\* Line 186: step_ids = {step.id for step in plan.steps}
ValStepIds(p) == {p[i].id : i \in 1..Len(p)}

ToolError(step) ==
    [kind |-> "tool_not_found", step |-> step.id,
     what |-> Key(step.service_name, step.tool_name)]
DependencyError(step, dep) ==
    [kind |-> "dependency_not_found", step |-> step.id, what |-> <<dep>>]

\* A check that stops at a step's first missing dependency.
RECURSIVE DepErrorsFirstOnly(_, _, _)
DepErrorsFirstOnly(step, deps, ids) ==
    IF deps = << >> THEN << >>
    ELSE IF Head(deps) \notin ids THEN <<DependencyError(step, Head(deps))>>
         ELSE DepErrorsFirstOnly(step, Tail(deps), ids)

\* Lines 197-202: for dep in step.depends_on
RECURSIVE DepErrors(_, _, _)
DepErrors(step, deps, ids) ==
    IF deps = << >> THEN << >>
    ELSE (IF Head(deps) \notin ids THEN <<DependencyError(step, Head(deps))>> ELSE << >>)
         \o DepErrors(step, Tail(deps), ids)

\* Lines 188-202: for step in plan.steps
RECURSIVE StepErrors(_, _, _, _)
StepErrors(p, i, keys, ids) ==
    IF i > Len(p) THEN << >>
    ELSE (IF Key(p[i].service_name, p[i].tool_name) \notin keys
          THEN <<ToolError(p[i])>> ELSE << >>)
         \o DepErrors(p[i], p[i].depends_on, ids)
         \o StepErrors(p, i + 1, keys, ids)

validate_execution_plan(p, tools) == StepErrors(p, 1, ToolKeys(tools), ValStepIds(p))

\* The inputs: a catalog over two servers and two tool names, one of each
\* with a "." in it; steps that name a pair of the catalog, a pair that is
\* not in it, or the pair whose key reads the same as another's; depends_on
\* lists of up to MaxDepLen entries, repeats included; the steps have IDs of
\* their own, or are one step written several times.
Catalog ==
    {[server |-> <<"srv">>, name |-> <<"t">>],
     [server |-> <<"srv">>, name |-> <<"x", ".", "t">>],
     [server |-> <<"other">>, name |-> <<"t">>]}

ValTools ==
    {<<<<"srv">>, <<"t">>>>, <<<<"srv", ".", "x">>, <<"t">>>>, <<<<"other">>, <<"u">>>>}

ValDeps == UNION {[1..n -> {"s1", Ghost}] : n \in 0..MaxDepLen}

\* A set of catalog entries as the list the registry returns.
RECURSIVE ListOf(_)
ListOf(S) ==
    IF S = {} THEN << >>
    ELSE LET e == CHOOSE x \in S : TRUE IN <<e>> \o ListOf(S \ {e})

InitValidate ==
    /\ pc = "validate"
    /\ \E n \in 0..MaxValSteps :
         \/ \E tool \in [1..n -> ValTools], deps \in [1..n -> ValDeps] :
               plan = [i \in 1..n |->
                         ExecutionStep(IdNames[i], tool[i][1], tool[i][2], NoArgs, deps[i])]
         \/ \E tool \in ValTools, deps \in ValDeps :
               plan = [i \in 1..n |->
                         ExecutionStep(IdNames[1], tool[1], tool[2], NoArgs, deps)]
    /\ \E S \in SUBSET Catalog : available_tools = ListOf(S)
    /\ errors = << >>
    /\ var_ref = << >>
    /\ resolved = Return(None)
    /\ results = NoResults

Validate ==
    /\ pc = "validate"
    /\ errors' = validate_execution_plan(plan, available_tools)
    /\ pc' = "validated"
    /\ UNCHANGED <<plan, max_concurrent, has_callback, results, completed, wave,
                   task, semaphore, waiters, gather_exc, error, cb_start, cb_done, loop,
                   twin, SERVER_REGISTRY, var_ref, resolved, available_tools>>

\* The plan of a run as validate_execution_plan reads it (a name is the
\* one-token string of itself), and an available_tools that lists every tool
\* of every server of the registry the run uses.
AsValidated(p) ==
    [i \in 1..Len(p) |->
        ExecutionStep(p[i].id, <<p[i].service_name>>, <<p[i].tool_name>>,
                      p[i].arguments, p[i].depends_on)]

CatalogOf(registry) ==
    ListOf(UNION {{[server |-> <<srv>>, name |-> <<x>>] : x \in registry[srv]} :
                     srv \in DOMAIN registry})
MockCatalog == CatalogOf(MockRegistry)

RegistryCatalog ==
    IF SERVER_REGISTRY = MockRegistry THEN MockCatalog ELSE CatalogOf(SERVER_REGISTRY)

\* registry/__init__.py, lines 12-54: an entry for every tool of the
\* gateway, under the server tool_service_mapping gives it.
list_tool_schemas ==
    ListOf({[server |-> <<tool_service_mapping(x)>>, name |-> <<x>>] : x \in GatewayTools})

\* Lines 309-310 of run_agent.py, as run: the plan passes validation
\* against the catalog list_tool_schemas() returns.
Validated(p) == validate_execution_plan(AsValidated(p), list_tool_schemas) = << >>

\* Lines 309-310 of run_agent.py: the plan passes validation.
Accepted(p) == validate_execution_plan(AsValidated(p), RegistryCatalog) = << >>

\* What the stand-alone calls leave at rest.
InitIdle ==
    /\ max_concurrent = << >>
    /\ has_callback = FALSE
    /\ completed = {}
    /\ wave = << >>
    /\ task = [i \in Steps |-> IdleTask]
    /\ semaphore = << >>
    /\ waiters = << >>
    /\ gather_exc = NoExc
    /\ error = NoExc
    /\ cb_start = [i \in Steps |-> << >>]
    /\ cb_done = [i \in Steps |-> << >>]
    /\ loop = NoLoop
    /\ twin = NoTwin
    /\ SERVER_REGISTRY = MockRegistry

Init == InitEngine \/ ((InitResolve \/ InitArguments \/ InitValidate) /\ InitIdle)

\* One segment of execute_plan or of a step's task.
NextEngine ==
    \/ Start
    \/ JoinWave
    \/ RaiseFromGather
    \/ \E i \in Steps : TaskRun(i)
    \/ \E i \in Steps : TaskAdmit(i)
    \/ \E i \in Steps : TaskInvoke(i)
    \/ \E i \in Steps : TaskFinish(i)

Next ==
    \/ NextEngine /\ UNCHANGED twin
    \/ ResolveVariable
    \/ ResolveArguments
    \/ Validate

Spec == Init /\ [][Next]_vars

\* The plans whose scheduling differs: every dependency graph, every kind of
\* failing step, every concurrency limit, every way of giving a slot back.
InitScheduling == (InitGraphs \/ InitFaults \/ InitCaps \/ InitSlots) /\ InitMock /\ InitRun

\* execute_plan on a running event loop: the loop runs every task that can
\* run, and every tool call ends.
FairSpec ==
    /\ InitScheduling
    /\ [][NextEngine /\ UNCHANGED twin]_vars
    /\ WF_vars(NextEngine /\ UNCHANGED twin)

\* ------------------------------------------------ a run and its re-run
\* execute_plan is run to the end, every task of it included, and then run
\* again on the same plan: under the same schedule with progress_callback the
\* other way round (given where it was None, None where it was given), or
\* under any schedule with the limit of the first run taken away.
MaxTwinSteps == 2

\* What a run does, the callback's calls left out.
Proj == <<pc, results, completed, wave, task, semaphore, waiters, gather_exc, error, loop>>

Acts ==
    {[act |-> n, i |-> 0] : n \in {"Start", "JoinWave", "RaiseFromGather"}}
        \cup {[act |-> n, i |-> i] :
                 n \in {"TaskRun", "TaskAdmit", "TaskInvoke", "TaskFinish"}, i \in Steps}

Act(a) ==
    CASE a.act = "Start" -> Start
      [] a.act = "JoinWave" -> JoinWave
      [] a.act = "RaiseFromGather" -> RaiseFromGather
      [] a.act = "TaskRun" -> TaskRun(a.i)
      [] a.act = "TaskAdmit" -> TaskAdmit(a.i)
      [] a.act = "TaskInvoke" -> TaskInvoke(a.i)
      [] OTHER -> TaskFinish(a.i)

\* Nothing of the run is left to happen.
Quiescent == \A a \in Acts : ~ENABLED Act(a)

InitTwin ==
    /\ \E n \in 0..MaxTwinSteps :
         \E fan \in [1..n -> BOOLEAN], tool \in [1..n -> {"append_a", "fail"}] :
            plan = [i \in 1..n |->
                      ExecutionStep(IdNames[i], "test_server", tool[i],
                                    IF fan[i] /\ i > 1
                                    THEN <<Arg("x", Ref(IdNames[1]))>> ELSE NoArgs,
                                    IF fan[i] /\ i > 1 THEN <<IdNames[1]>> ELSE << >>)]
    /\ max_concurrent \in {<< >>} \cup {<<k>> : k \in 0..MaxCap}
    /\ has_callback \in BOOLEAN
    /\ pc = "start"
    /\ results = NoResults
    /\ completed = {}
    /\ wave = << >>
    /\ task = [i \in Steps |-> IdleTask]
    /\ semaphore = << >>
    /\ waiters = << >>
    /\ gather_exc = NoExc
    /\ error = NoExc
    /\ cb_start = [i \in Steps |-> << >>]
    /\ cb_done = [i \in Steps |-> << >>]
    /\ loop = NoLoop
    /\ twin = [mode |-> "first", pos |-> 0, trace |-> << >>]
    /\ SERVER_REGISTRY = MockRegistry
    /\ var_ref = << >>
    /\ resolved = Return(None)
    /\ available_tools = << >>
    /\ errors = << >>

\* A segment of the first run, written down with what it led to.
FirstRun ==
    /\ twin.mode = "first"
    /\ \E a \in Acts :
         /\ Act(a)
         /\ twin' = [twin EXCEPT !.trace = Append(@, [a |-> a, proj |-> Proj'])]

\* The first run is over: the same call again, the callback the other way.
Rerun ==
    /\ twin.mode = "first"
    /\ Quiescent
    /\ twin' = [twin EXCEPT !.mode = "second"]
    /\ has_callback' = ~has_callback
    /\ pc' = "start"
    /\ results' = NoResults
    /\ completed' = {}
    /\ wave' = << >>
    /\ task' = [i \in Steps |-> IdleTask]
    /\ semaphore' = << >>
    /\ waiters' = << >>
    /\ gather_exc' = NoExc
    /\ error' = NoExc
    /\ cb_start' = [i \in Steps |-> << >>]
    /\ cb_done' = [i \in Steps |-> << >>]
    /\ loop' = NoLoop
    /\ UNCHANGED <<others, plan, max_concurrent>>

\* The second run takes the segments of the first, in its order.
SecondRun ==
    /\ twin.mode = "second"
    /\ twin.pos < Len(twin.trace)
    /\ Act(twin.trace[twin.pos + 1].a)
    /\ twin' = [twin EXCEPT !.pos = @ + 1]

\* The first run, made under a limit, is over: the same call again with
\* max_concurrent=None.
RerunUncapped ==
    /\ twin.mode = "first"
    /\ Quiescent
    /\ max_concurrent # << >> /\ max_concurrent[1] >= 1
    /\ twin' = [twin EXCEPT !.mode = "uncapped"]
    /\ max_concurrent' = << >>
    /\ pc' = "start"
    /\ results' = NoResults
    /\ completed' = {}
    /\ wave' = << >>
    /\ task' = [i \in Steps |-> IdleTask]
    /\ semaphore' = << >>
    /\ waiters' = << >>
    /\ gather_exc' = NoExc
    /\ error' = NoExc
    /\ cb_start' = [i \in Steps |-> << >>]
    /\ cb_done' = [i \in Steps |-> << >>]
    /\ loop' = NoLoop
    /\ UNCHANGED <<others, plan, has_callback>>

\* The run without a limit goes its own way.
UncappedRun ==
    /\ twin.mode = "uncapped"
    /\ NextEngine
    /\ UNCHANGED twin

\* The first run, made with max_concurrent=0, is over: the same call again
\* with max_concurrent=None.
RerunNone ==
    /\ twin.mode = "first"
    /\ Quiescent
    /\ max_concurrent = <<0>>
    /\ twin' = [twin EXCEPT !.mode = "none"]
    /\ max_concurrent' = << >>
    /\ pc' = "start"
    /\ results' = NoResults
    /\ completed' = {}
    /\ wave' = << >>
    /\ task' = [i \in Steps |-> IdleTask]
    /\ semaphore' = << >>
    /\ waiters' = << >>
    /\ gather_exc' = NoExc
    /\ error' = NoExc
    /\ cb_start' = [i \in Steps |-> << >>]
    /\ cb_done' = [i \in Steps |-> << >>]
    /\ loop' = NoLoop
    /\ UNCHANGED <<others, plan, has_callback>>

\* The run with None takes the segments of the run with 0, in its order.
NoneRun ==
    /\ twin.mode = "none"
    /\ twin.pos < Len(twin.trace)
    /\ Act(twin.trace[twin.pos + 1].a)
    /\ twin' = [twin EXCEPT !.pos = @ + 1]

NextTwin ==
    FirstRun \/ Rerun \/ SecondRun \/ RerunUncapped \/ UncappedRun \/ RerunNone \/ NoneRun

TwinSpec == InitTwin /\ [][NextTwin]_vars

\* ================================================================== claims
Started(i) == task[i].phase \in {"get_tools", "in_flight", "done", "failed"}

\* The step of the plan whose result is stored under id.
Recorded(id) ==
    /\ id \in completed
    /\ id \in DOMAIN results
    /\ \E j \in Steps : plan[j].id = id /\ task[j].phase = "done"
                        /\ results[id] = task[j].result

\* C1: a step's start callback, argument resolution and tool invocation
\* happen only after every step ID in its depends_on is in the completed set
\* and has its result stored in the results map.
C1_StartsAfterDependencies ==
    \A i \in Steps :
        (Started(i) \/ cb_start[i] # << >> \/ task[i].ncalls > 0)
            => \A dep \in Range(plan[i].depends_on) : Recorded(dep)

C1_Witness ==
    \E i \in Steps : Len(plan[i].depends_on) >= 2 /\ task[i].phase = "in_flight"

\* C2: with max_concurrent = k >= 1 at most k steps hold a slot at any
\* moment, so at most k tool invocations are in flight.
C2_AtMostKSlots ==
    (max_concurrent # << >> /\ max_concurrent[1] >= 1 /\ pc # "start")
        => /\ Cardinality({i \in Steps : Holding(i)}) <= max_concurrent[1]
           /\ Cardinality({i \in Steps : InFlight(i)}) <= max_concurrent[1]
           /\ semaphore # << >>
           /\ semaphore[1] + Cardinality({i \in Steps : Holding(i)}) = max_concurrent[1]

C2_Witness ==
    /\ max_concurrent = <<1>>
    /\ \E i, j \in Steps : task[i].phase = "in_flight" /\ task[j].phase = "queued"

\* The tool of step i was invoked and raised.
ToolRaised(i) == task[i].phase = "failed" /\ task[i].ncalls > 0

\* What the tool of step i raised.
Original(i) == ToolCall(plan[i].tool_name, task[i].args).exc

\* e is a RuntimeError naming step i, its service and its tool, containing
\* the text of what the tool raised, with that exception as its cause.
NamesToolFailure(e, i) ==
    /\ e.type = "RuntimeError"
    /\ <<"step", plan[i].id>> \in e.mentions
    /\ <<"service", plan[i].service_name>> \in e.mentions
    /\ <<"tool", plan[i].tool_name>> \in e.mentions
    /\ Original(i).mentions \subseteq e.mentions
    /\ Original(i).mentions # {}
    /\ e.cause = Original(i).type

\* C3 as stated: if the tool invocation of any step raises, execute_plan
\* fails with an error that names that step, its service and tool, contains
\* the original text and has the original exception as its cause, and no
\* results map is returned.
C3_ToolFailureNamed ==
    (\E i \in Steps : ToolRaised(i))
        => /\ pc # "returned"
           /\ pc = "failed" => \E j \in Steps : ToolRaised(j) /\ NamesToolFailure(error, j)

\* C3 amended: if the tool invocation of any step raises, no results map is
\* returned and execute_plan fails with the error of a failed step of that
\* wave (gather's first); the error of a step whose tool raised names the
\* step ID, the service and the tool, contains the original text and has the
\* original exception as its cause, also when other steps of the wave succeed.
C3_FirstFailureRaised ==
    /\ \A i \in Steps : ToolRaised(i) => NamesToolFailure(task[i].exc, i)
    /\ (\E i \in Steps : ToolRaised(i))
         => /\ pc # "returned"
            /\ gather_exc # NoExc
            /\ pc = "failed"
                 => /\ error = gather_exc
                    /\ \E j \in Range(wave) : task[j].phase = "failed" /\ error = task[j].exc
            /\ (\A j \in Range(wave) : task[j].phase = "failed" => ToolRaised(j))
                 => \E j \in Range(wave) : ToolRaised(j) /\ NamesToolFailure(gather_exc, j)

C3_Witness ==
    /\ pc = "failed"
    /\ \E i, j \in Range(wave) :
         /\ ToolRaised(i) /\ NamesToolFailure(error, i)
         /\ task[j].phase = "done"

\* C4: execute_plan either returns a results map whose keys are exactly the
\* plan's step IDs, each mapped to the value that step's tool returned, or it
\* fails; it never returns a map that misses a step.
C4_AllOrNothing ==
    /\ pc \in {"start", "gather", "returned", "failed", "resolve", "resolved",
               "resolve_args", "args_resolved", "validate", "validated"}
    /\ pc = "failed" => error # NoExc
    /\ pc = "returned"
         => /\ error = NoExc
            /\ DOMAIN results = {plan[i].id : i \in Steps}
            /\ \A i \in Steps :
                 /\ task[i].ncalls = 1
                 /\ ToolCall(plan[i].tool_name, task[i].args).ok
                 /\ results[plan[i].id] = ToolCall(plan[i].tool_name, task[i].args).val

C4_Witness == pc = "returned" /\ Len(plan) = MaxSteps /\ Len(wave) < Len(plan)

\* C6: in a successful run of an N-step plan with a progress callback the
\* callback is called exactly 2N times: for each step once with None (start)
\* and once with the step's result (completion), and never a completion call
\* for a step without an earlier start call for that step.
C6_TwoCallsPerStep ==
    has_callback
        => /\ \A i \in Steps : cb_done[i] # << >> => cb_start[i] # << >>
           /\ pc = "returned"
                => \A i \in Steps :
                     /\ Len(cb_start[i]) = 1
                     /\ Len(cb_done[i]) = 1
                     /\ cb_start[i][1].result = None
                     /\ cb_done[i][1].result = task[i].result
                     /\ cb_done[i][1].result # None

C6_Witness == has_callback /\ pc = "returned" /\ Len(plan) = MaxSteps

\* The step with the given ID (IDs are unique in the plans run here).
StepOf(id) == CHOOSE j \in Steps : plan[j].id = id

\* Step i is called with a tool that appends to the whole result of the
\* step before it, on which it depends (the first step takes no argument).
AppendLink(i) ==
    /\ plan[i].tool_name \in {"append_a", "append_b"}
    /\ plan[i].service_name = "test_server"
    /\ IF i = 1 THEN plan[i].arguments = NoArgs /\ plan[i].depends_on = << >>
       ELSE /\ plan[i].arguments = <<Arg("x", Ref(plan[i - 1].id))>>
            /\ plan[i].depends_on = <<plan[i - 1].id>>

IsAppendChain ==
    pc \in {"start", "gather", "returned", "failed"} /\ \A i \in Steps : AppendLink(i)

Letter(tool_name) == IF tool_name = "append_a" THEN "a" ELSE "b"

\* The left-to-right composition of the first i tools of a chain.
Composed(i) == Str([j \in 1..i |-> Letter(plan[j].tool_name)])

\* C7: a step with an argument "$d", d in its depends_on, is invoked with
\* exactly the value stored in results[d], the value d's tool returned; in
\* a chain where each step references the one before, the results are the
\* left-to-right composition of the tools and the tools run in plan order.
C7_ReferenceIsDependencyResult ==
    /\ \A i \in Steps : \A a \in 1..Len(plan[i].arguments) :
         \A d \in Range(plan[i].depends_on) :
            (plan[i].arguments[a].v = Ref(d) /\ task[i].ncalls > 0)
                => /\ d \in DOMAIN results
                   /\ task[i].args[a].k = plan[i].arguments[a].k
                   /\ task[i].args[a].v = results[d]
                   /\ results[d] = task[StepOf(d)].result
                   /\ results[d] = ToolCall(plan[StepOf(d)].tool_name,
                                            task[StepOf(d)].args).val
    /\ IsAppendChain
         => /\ \A i \in Steps : (i > 1 /\ task[i].ncalls > 0) => task[i - 1].phase = "done"
            /\ pc = "returned" => \A i \in Steps : results[plan[i].id] = Composed(i)

C7_Witness == IsAppendChain /\ Len(plan) = MaxSteps /\ pc = "returned"
              /\ \E i, j \in Steps : plan[i].tool_name # plan[j].tool_name

\* C9: all steps of the ready set are launched together in one wave, and
\* without a concurrency cap no step of a wave waits for another to finish:
\* the first segments run one after the other in the order of the wave,
\* whatever the tasks before are doing, and from then on a task's next
\* segment can run whatever the others do, so all of a wave's tools can be
\* in flight at once.
C9_WaveLaunchedTogether ==
    pc = "gather"
        => /\ \A i \in Steps :
                (/\ plan[i].id \notin completed
                 /\ \A dep \in Range(plan[i].depends_on) : dep \in completed)
                    => i \in Range(wave) /\ task[i].phase # "idle"
           /\ max_concurrent = << >>
                => \A i \in Range(wave) :
                     /\ task[i].phase # "queued"
                     /\ (task[i].phase = "new"
                         /\ \A p \in 1..(PlaceIn(wave, i) - 1) : task[wave[p]].phase # "new")
                          => ENABLED TaskRun(i)
                     /\ (task[i].phase = "get_tools" /\ FirstSegmentsRun)
                          => ENABLED TaskInvoke(i)
                     /\ (task[i].phase = "in_flight" /\ FirstSegmentsRun)
                          => ENABLED TaskFinish(i)

C9_Witness ==
    /\ max_concurrent = << >>
    /\ Len(plan) = MaxSteps
    /\ \A i \in Steps : task[i].phase = "in_flight"

\* Two steps that depend only on a common base are in flight together.
C9_FanOutWitness ==
    /\ max_concurrent = << >>
    /\ \E i, j \in Steps :
         /\ i # j
         /\ plan[i].depends_on = <<plan[1].id>> /\ plan[j].depends_on = <<plan[1].id>>
         /\ task[i].phase = "in_flight" /\ task[j].phase = "in_flight"
         /\ task[1].phase = "done"

\* The step IDs that can ever complete: the least set closed under "all
\* dependencies are in the set".
RECURSIVE Completable(_)
Completable(S) ==
    LET T == S \cup {plan[i].id : i \in {j \in Steps :
                        \A dep \in Range(plan[j].depends_on) : dep \in S}}
    IN IF T = S THEN S ELSE Completable(T)

\* The plan has a dependency cycle or a depends_on entry naming no step.
Unsatisfiable == \E i \in Steps : plan[i].id \notin Completable({})

Ended == pc \in {"returned", "failed"}

\* C5 as stated (its last clause): a plan with a dependency cycle or a
\* dangling depends_on entry ends with the deadlock error.
C5_UnsatisfiableEndsInDeadlock ==
    (Ended /\ Unsatisfiable) => (pc = "failed" /\ error.kind = "deadlock")

\* C5 amended: for every plan, cyclic and dangling ones included, and
\* provided every tool invocation terminates, execute_plan terminates: it
\* returns or fails.  A cyclic or dangling plan never returns; it fails with
\* the deadlock error unless a step of a wave before the deadlock failed, and
\* then with that step's error.
C5_Terminates ==
    /\ (pc = "start") ~> Ended
    /\ [](Unsatisfiable => pc # "returned")
    /\ []((Ended /\ Unsatisfiable)
            => \/ error.kind = "deadlock"
               \/ \E i \in Range(wave) : task[i].phase = "failed" /\ error = task[i].exc)
    /\ []((Ended /\ Unsatisfiable /\ \A i \in Steps : task[i].phase # "failed")
            => error.kind = "deadlock")

C5_Witness ==
    /\ pc = "failed" /\ error.kind = "deadlock"
    /\ completed # {}
    /\ \E i, j \in Steps : i # j /\ plan[i].depends_on = <<plan[j].id>>
                           /\ plan[j].depends_on = <<plan[i].id>>

\* "$s.f1.....fn" as written.
RECURSIVE Dotted(_)
Dotted(fs) == IF fs = << >> THEN << >> ELSE <<".", Head(fs)>> \o Dotted(Tail(fs))
MkRef(s, fs) == <<"$", s>> \o Dotted(fs)

RefNames == RefAlphabet \ {"."}
RefPaths == {<< >>} \cup {<<f>> : f \in RefNames} \cup {<<f, g>> : f, g \in RefNames}

IsRecord(v) == v.t \in {"dict", "dataclass"}

\* Looking up fs in turn from v reaches a value.
Reaches(v, fs) ==
    CASE Len(fs) = 0 -> TRUE
      [] Len(fs) = 1 -> IsRecord(v) /\ fs[1] \in DOMAIN v.m
      [] OTHER -> /\ IsRecord(v) /\ fs[1] \in DOMAIN v.m
                  /\ IsRecord(v.m[fs[1]]) /\ fs[2] \in DOMAIN v.m[fs[1]].m

\* The value it reaches.
At(v, fs) ==
    CASE Len(fs) = 0 -> v
      [] Len(fs) = 1 -> v.m[fs[1]]
      [] OTHER -> v.m[fs[1]].m[fs[2]]

\* C8: "$s.f1.....fn" resolves to the value reached from results[s] by
\* looking up f1, ..., fn in turn, by key on a mapping and by field name on a
\* record, and to results[s] itself when there is no field; a step that
\* references $step1.field1 is called with the value of field1 of step1's
\* result.
C8_ReferenceFollowsFields ==
    /\ pc = "resolved"
         => \A s \in RefNames : \A fs \in RefPaths :
               (var_ref = MkRef(s, fs) /\ s \in DOMAIN results /\ Reaches(results[s], fs))
                   => resolved = Return(At(results[s], fs))
    /\ pc \in {"gather", "returned", "failed"}
         => \A i \in Steps : \A a \in 1..Len(plan[i].arguments) :
              \A d \in Range(plan[i].depends_on) :
                 (plan[i].arguments[a].v = FieldRef(d, "field1") /\ task[i].ncalls > 0
                  /\ plan[StepOf(d)].tool_name = "make_record")
                     => task[i].args[a].v = Str(<<"value1">>)

C8_Witness ==
    /\ pc = "resolved"
    /\ var_ref = MkRef("s1", <<"field2", "nested">>)
    /\ resolved = Return(Str(<<"nested_value">>))

\* The step's tool key is the key of some entry of available_tools.
ToolKnown(step) ==
    \E k \in 1..Len(available_tools) :
        Key(step.service_name, step.tool_name)
            = Key(available_tools[k].server, available_tools[k].name)

\* The places of the depends_on entries of step i that name no step.
Dangling(i) ==
    {k \in 1..Len(plan[i].depends_on) :
        \A j \in Steps : plan[j].id # plan[i].depends_on[k]}

\* The errors of one kind that name step i.
ErrorsAbout(i, kind) ==
    {k \in 1..Len(errors) : errors[k].kind = kind /\ errors[k].step = plan[i].id}

\* C10: validate_execution_plan returns the empty list exactly when every
\* step's key service_name.tool_name is the server.name of some entry of
\* available_tools and every depends_on ID is the id of a step of the plan;
\* otherwise one error per step whose tool is missing and one per dangling
\* depends_on entry, each naming the step.
C10_ValidatorErrors ==
    pc = "validated"
        => /\ errors = << >>
                <=> \A i \in Steps : ToolKnown(plan[i]) /\ Dangling(i) = {}
           /\ \A i \in Steps :
                /\ Cardinality(ErrorsAbout(i, "tool_not_found"))
                     = Cardinality({j \in Steps : plan[j].id = plan[i].id
                                                  /\ ~ToolKnown(plan[j])})
                /\ Cardinality(ErrorsAbout(i, "dependency_not_found"))
                     = IF \A j \in Steps : plan[j].id = plan[i].id => j = i
                       THEN Cardinality(Dangling(i))
                       ELSE Cardinality({<<j, k>> \in Steps \X (1..MaxDepLen) :
                                            plan[j].id = plan[i].id /\ k \in Dangling(j)})
           /\ \A k \in 1..Len(errors) : \E i \in Steps : errors[k].step = plan[i].id

C10_Witness ==
    /\ pc = "validated"
    /\ Len(errors) = 3
    /\ \E i \in Steps : ~ToolKnown(plan[i]) /\ Cardinality(Dangling(i)) = 2

\* No two steps of the plan share an ID.
UniqueIds == \A i, j \in Steps : plan[i].id = plan[j].id => i = j

EngineRun == pc \in {"start", "gather", "returned", "failed"}

\* C11: the loop makes at most |steps| waves, and a plan that is acyclic and
\* whose depends_on entries all name steps of the plan never meets an empty
\* ready set; for a plan with a cycle or a dangling dependency the deadlock
\* is raised in the first pass of the loop whose ready set is empty, the
\* pass that follows the last wave, every step of which has finished.
C11_AtMostStepsWaves ==
    EngineRun
        => /\ loop.waves <= Len(plan)
           /\ loop.waves <= loop.passes /\ loop.passes <= loop.waves + 1
           /\ pc = "gather" => wave # << >> /\ loop.passes = loop.waves
           /\ UniqueIds
                => IF Unsatisfiable
                   THEN loop.waves < Len(plan)
                   ELSE error.kind # "deadlock"
           /\ error.kind = "deadlock"
                => /\ pc = "failed"
                   /\ loop.passes = loop.waves + 1
                   /\ executable_steps(completed) = << >>
                   /\ UniqueIds => Remaining(completed) # {}
                   /\ \A i \in Steps : task[i].phase \in {"idle", "done"}
                   /\ \A i \in Range(wave) : plan[i].id \in completed

C11_Witness ==
    /\ pc = "returned" /\ Len(plan) = MaxSteps /\ loop.waves = MaxSteps

\* A cycle behind two waves: the deadlock comes in the third pass.
C11_DeadlockWitness ==
    /\ error.kind = "deadlock" /\ loop.waves = MaxSteps - 1 /\ loop.passes = MaxSteps

\* Step i failed at the registry: its service or its tool was not found.
DispatchFailed(i) ==
    task[i].phase = "failed" /\ task[i].exc.kind \in {"server_not_found", "tool_not_found"}

\* e names step i, its service, its tool and the known tools of the service.
NamesDispatchFailure(e, i) ==
    /\ <<"step", plan[i].id>> \in e.mentions
    /\ <<"service", plan[i].service_name>> \in e.mentions
    /\ <<"tool", plan[i].tool_name>> \in e.mentions
    /\ plan[i].service_name \in DOMAIN SERVER_REGISTRY
         => \A x \in SERVER_REGISTRY[plan[i].service_name] : <<"known_tool", x>> \in e.mentions

\* C12: if a step's service is not in the registry, or its tool is not among
\* that service's tools, the step's tool is never invoked and the error
\* execute_plan fails with on its account names the step ID, the service, the
\* tool and the set of known tools.
C12_DispatchFailureNamed ==
    EngineRun
        => \A i \in Steps :
             /\ (task[i].phase # "idle"
                 /\ (plan[i].service_name \notin DOMAIN SERVER_REGISTRY
                     \/ plan[i].tool_name \notin SERVER_REGISTRY[plan[i].service_name]))
                  => task[i].ncalls = 0 /\ task[i].phase # "done"
             /\ (DispatchFailed(i) /\ pc = "failed" /\ error = task[i].exc)
                  => NamesDispatchFailure(error, i)

\* C13: whenever execute_plan fails, with a tool exception, a missing service
\* or tool, the deadlock, or a step that fails while its arguments are being
\* resolved, what it raises is a RuntimeError.
C13_AlwaysRuntimeError ==
    (EngineRun /\ pc = "failed") => error.type = "RuntimeError"

\* The numbers the start callback was called with.
StartNumbers == UNION {{cb_start[i][k].num : k \in 1..Len(cb_start[i])} : i \in Steps}

RefStep(v) == IF Len(v.s) >= 2 THEN v.s[2] ELSE ""
RefFields(v) == [k \in 1..((Len(v.s) - 2) \div 2) |-> v.s[2 * k + 2]]

\* v is a reference to a step that has no entry in the results map.
MissingRef(v) == IsRef(v) /\ RefStep(v) \notin DOMAIN results

\* Resolving v raises nothing: it is no reference, or one that reaches a
\* value, or a list whose reference items all do.
ReachesValue(v) ==
    IsRef(v) => (RefStep(v) \in DOMAIN results
                 /\ Reaches(results[RefStep(v)], RefFields(v)))
ResolvesFine(v) ==
    /\ ReachesValue(v)
    /\ v.t = "list" => \A k \in 1..Len(v.items) : ReachesValue(v.items[k])

StepNotFound(e, v) ==
    e.kind = "step_not_found" /\ <<"step", RefStep(v)>> \in e.mentions

\* e names the reference v: it quotes it, or v is "$id" and e names id.
NamesReference(e, v) ==
    \/ <<"ref", v.s>> \in e.mentions
    \/ RefFields(v) = << >> /\ <<"step", RefStep(v)>> \in e.mentions

\* Step i was dispatched: its task got past acquire().
Dispatched(i) == task[i].phase \in {"get_tools", "in_flight", "done", "failed"}

\* C15 as stated: when an argument is a reference whose step ID is absent
\* from the results map, resolution fails with a "step not found" error that
\* names the reference and the missing step ID.
C15_StepNotFoundNamesReference ==
    pc = "args_resolved"
        => \A a \in 1..Len(plan[1].arguments) :
              MissingRef(plan[1].arguments[a].v)
                  => /\ ~resolved.ok
                     /\ StepNotFound(resolved.exc, plan[1].arguments[a].v)
                     /\ NamesReference(resolved.exc, plan[1].arguments[a].v)

\* C15 amended: when an argument is a reference whose step ID is absent from
\* the results map at dispatch time, resolution fails, the step's tool is not
\* invoked and execute_plan does not return; when the arguments before it
\* resolve, the error is a "step not found" KeyError that names the missing
\* step ID (and nothing else of the reference).
C15_StepNotFound ==
    /\ pc = "args_resolved"
         => \A a \in 1..Len(plan[1].arguments) :
               MissingRef(plan[1].arguments[a].v)
                   => /\ ~resolved.ok
                      /\ (\A b \in 1..(a - 1) : ResolvesFine(plan[1].arguments[b].v))
                           => /\ resolved.exc.type = "KeyError"
                              /\ StepNotFound(resolved.exc, plan[1].arguments[a].v)
                              /\ resolved.exc.mentions
                                   = {<<"step", RefStep(plan[1].arguments[a].v)>>}
    /\ EngineRun
         => \A i \in Steps : \A a \in 1..Len(plan[i].arguments) :
               (Dispatched(i) /\ MissingRef(plan[i].arguments[a].v))
                   => /\ task[i].phase = "failed" /\ task[i].ncalls = 0
                      /\ pc # "returned" /\ gather_exc # NoExc
                      /\ (\A b \in 1..(a - 1) : ResolvesFine(plan[i].arguments[b].v))
                           => StepNotFound(task[i].exc, plan[i].arguments[a].v)

C15_Witness ==
    /\ pc = "failed" /\ error.kind = "step_not_found"
    /\ \E i \in Steps : i > 1 /\ task[i].phase = "failed" /\ task[i].ncalls = 0
                        /\ plan[i].arguments = <<Arg("x", Ref(plan[i - 1].id))>>
                        /\ task[i - 1].phase = "done"

\* The second argument names the missing step, the first resolves.
C15_SecondArgumentWitness ==
    /\ pc = "args_resolved" /\ Len(plan[1].arguments) = 2
    /\ ResolvesFine(plan[1].arguments[1].v) /\ IsRef(plan[1].arguments[1].v)
    /\ MissingRef(plan[1].arguments[2].v)
    /\ ~resolved.ok /\ resolved.exc.kind = "step_not_found"

\* How the traversal of the fields fs from the value v ends, as C16 has it:
\* "ok", or the error at the first field that cannot be followed.
RECURSIVE Traversal(_, _)
Traversal(v, fs) ==
    IF fs = << >> THEN [kind |-> "ok", field |-> ""]
    ELSE IF ~IsRecord(v) THEN [kind |-> "not_a_record", field |-> Head(fs)]
    ELSE IF Head(fs) \notin DOMAIN v.m THEN [kind |-> "field_not_found", field |-> Head(fs)]
    ELSE Traversal(v.m[Head(fs)], Tail(fs))

\* C16: while traversing the field segments of a reference, a keyed record
\* without the field makes resolution fail with a "field not found" error,
\* and a value that is no keyed record (a scalar, a string, a sequence) makes
\* it fail with a type error naming the field and the step.
C16_FieldErrors ==
    (pc = "args_resolved" /\ Len(plan[1].arguments) >= 1)
        => LET v == plan[1].arguments[1].v
               end == Traversal(results[RefStep(v)], RefFields(v))
           IN (IsRef(v) /\ RefStep(v) \in DOMAIN results)
                 => /\ end.kind = "field_not_found"
                         => /\ ~resolved.ok
                            /\ resolved.exc.kind = "field_not_found"
                            /\ <<"field", end.field>> \in resolved.exc.mentions
                    /\ end.kind = "not_a_record"
                         => /\ ~resolved.ok
                            /\ resolved.exc.type = "TypeError"
                            /\ resolved.exc.mentions
                                 = {<<"field", end.field>>, <<"step", RefStep(v)>>}

\* The value a reference that reaches one stands for.
Referent(v) == At(results[RefStep(v)], RefFields(v))

\* An element resolved by the rule of a top-level value, as C17 has it: a
\* reference is replaced, a sequence has its elements resolved.
RECURSIVE ByTopLevelRule(_)
ByTopLevelRule(v) ==
    IF IsRef(v) THEN Referent(v)
    ELSE IF v.t = "list"
         THEN ListV([k \in 1..Len(v.items) |-> ByTopLevelRule(v.items[k])])
         ELSE v

\* Every reference of the arguments, and of the lists among them, reaches a
\* value.
AllResolveFine == \A a \in 1..Len(plan[1].arguments) : ResolvesFine(plan[1].arguments[a].v)

\* C17 as stated: each element of a sequence is resolved by the rule of a
\* top-level value, an element that is itself a sequence included.
C17_ElementsByTopLevelRule ==
    (pc = "args_resolved" /\ AllResolveFine)
        => /\ resolved.ok
           /\ \A a \in 1..Len(plan[1].arguments) :
                plan[1].arguments[a].v.t = "list"
                    => resolved.val[a].v = ByTopLevelRule(plan[1].arguments[a].v)

\* C17 amended: when an argument value is a sequence, each element that is
\* a reference is replaced by its resolved value and every other element, a
\* sequence or a mapping with references inside included, is left as it is;
\* the order and the length of the sequence are preserved.  A sequence with
\* a reference that does not resolve makes the resolution fail.
C17_ElementsResolved ==
    pc = "args_resolved"
        => /\ AllResolveFine
                => /\ resolved.ok
                   /\ Len(resolved.val) = Len(plan[1].arguments)
                   /\ \A a \in 1..Len(plan[1].arguments) :
                        LET v == plan[1].arguments[a].v
                            w == resolved.val[a].v
                        IN /\ resolved.val[a].k = plan[1].arguments[a].k
                           /\ v.t = "list"
                                => /\ w.t = "list"
                                   /\ Len(w.items) = Len(v.items)
                                   /\ \A k \in 1..Len(v.items) :
                                        w.items[k] = IF IsRef(v.items[k])
                                                     THEN Referent(v.items[k])
                                                     ELSE v.items[k]
           /\ (\E a \in 1..Len(plan[1].arguments) :
                  LET v == plan[1].arguments[a].v
                  IN v.t = "list" /\ \E k \in 1..Len(v.items) :
                        MissingRef(v.items[k]) \/ ~ReachesValue(v.items[k]))
                => ~resolved.ok

C17_Witness ==
    /\ pc = "args_resolved" /\ resolved.ok /\ results # NoResults
    /\ Len(plan[1].arguments) = 1
    /\ plan[1].arguments[1].v = ListV(<<Ref("s1"), ListV(<<Ref("s1")>>)>>)
    /\ resolved.val[1].v = ListV(<<results["s1"], ListV(<<Ref("s1")>>)>>)

\* C18: the progress hook does not affect scheduling.  A run and the run of
\* the same plan under the same schedule with the callback the other way
\* round go through the same waves, the same tool invocations with the same
\* resolved arguments and the same step numbers, and end with the same
\* results or the same failure: every segment of the one can be taken by
\* the other, leads to the same state of the run, and when the one has
\* nothing left to do neither has the other.
C18_HookDoesNotSchedule ==
    twin.mode = "second"
        => /\ twin.pos >= 1 => Proj = twin.trace[twin.pos].proj
           /\ twin.pos < Len(twin.trace) => ENABLED Act(twin.trace[twin.pos + 1].a)
           /\ twin.pos = Len(twin.trace) => Quiescent

C18_Witness ==
    /\ twin.mode = "second" /\ twin.pos = Len(twin.trace) /\ twin.pos > 0
    /\ ~has_callback
    /\ Len(plan) = MaxTwinSteps
    /\ pc = "failed" /\ \E i \in Steps : task[i].phase = "done"

\* The re-run with the callback, of a run without: it returns.
C18_ReturnedWitness ==
    /\ twin.mode = "second" /\ twin.pos = Len(twin.trace)
    /\ has_callback /\ max_concurrent = <<1>>
    /\ Len(plan) = MaxTwinSteps /\ pc = "returned"
    /\ \A i \in Steps : Len(cb_start[i]) = 1 /\ Len(cb_done[i]) = 1

\* Step i has begun: its start callback, its resolution or its tool call.
Begun(i) == Dispatched(i) \/ cb_start[i] # << >> \/ task[i].ncalls > 0

\* Step i is under way: launched and not finished.
UnderWay(i) == task[i].phase \in {"new", "queued", "get_tools", "in_flight"}

\* C19: waves are strictly sequential.  The ready set is recomputed only
\* after every step of the current wave has finished, so whenever a step of
\* a wave has begun every step of the waves before has finished and is
\* recorded, and no step outside the current wave is under way.
C19_WavesSequential ==
    /\ [](EngineRun
            => \A i \in Steps :
                 i \notin Range(wave)
                     => /\ ~UnderWay(i) /\ task[i].phase # "failed"
                        /\ task[i].phase = "done" => Recorded(plan[i].id)
                        /\ task[i].phase = "idle" => ~Begun(i))
    /\ [][(EngineRun /\ wave' # wave /\ pc # "start")
            => /\ \A i \in Range(wave) : task[i].phase = "done"
               /\ \A i \in Range(wave) : plan[i].id \in completed'
               /\ \A i \in Range(wave') : i \notin Range(wave) /\ task[i].phase = "idle"]_vars

C19_Witness ==
    /\ pc = "gather" /\ loop.waves = 2 /\ Len(wave) = 2
    /\ Len(plan) = MaxSteps
    /\ \A i \in Range(wave) : task[i].phase = "in_flight"
    /\ \A i \in Steps : i \notin Range(wave) => task[i].phase = "done"

\* execute_plan has failed because a step of a wave failed.
FailedOnStep == pc = "failed" /\ error.kind # "deadlock"

\* C20: once execute_plan has failed because a step of some wave failed, no
\* other step begins afterwards: a step that had not begun, queued or not
\* yet dispatched, gets no start callback and no tool invocation.
C20_NothingBeginsAfterFailure ==
    [][FailedOnStep
         => \A i \in Steps :
               ~Begun(i) => /\ cb_start'[i] = cb_start[i]
                            /\ task'[i].ncalls = task[i].ncalls
                            /\ task'[i].phase \in {"idle", "new", "queued"}]_vars

\* What resolving the arguments of step i against the map res gives.
ResolvedAgainst(i, res) == _resolve_arguments(plan[i].arguments, res)

\* The IDs of the steps of the waves before the running one.
EarlierWaves == {plan[j].id : j \in {k \in Steps : k \notin Range(wave) /\ task[k].phase = "done"}}

\* C21: the results map and the completed set are written only by the
\* coordinator at wave boundaries.  While a step of a wave is under way
\* neither is modified, a step's task leaves both as they are, and every
\* step of a wave resolves its arguments against the same snapshot: the
\* results of all the waves before.
C21_SingleWriter ==
    /\ []((EngineRun /\ pc = "gather")
            => /\ DOMAIN results = EarlierWaves
               /\ completed = EarlierWaves
               /\ \A i \in Range(wave) :
                    Dispatched(i)
                        => LET r == ResolvedAgainst(i, results) IN
                           IF r.ok
                           THEN task[i].args = r.val /\ task[i].exc.kind # "step_not_found"
                           ELSE task[i].phase = "failed" /\ task[i].exc = r.exc)
    /\ [][(EngineRun /\ (results' # results \/ completed' # completed))
            => /\ pc = "gather"
               /\ \A i \in Steps : ~UnderWay(i)
               /\ \A i \in Range(wave) : task[i].phase = "done" /\ task'[i] = task[i]]_vars
    /\ [][(EngineRun /\ \E i \in Steps : task'[i] # task[i] /\ task[i].phase # "idle"
                                         /\ task'[i].phase # "new")
            => results' = results /\ completed' = completed]_vars

\* Two steps of the second wave are in flight, each called with what it read
\* of the first step's result.
C21_Witness ==
    /\ pc = "gather" /\ loop.waves = 2
    /\ \E i, j \in Range(wave) :
         /\ i # j
         /\ task[i].phase = "in_flight" /\ task[j].phase = "in_flight"
         /\ plan[i].arguments = <<Arg("x", Ref(plan[1].id))>>
         /\ plan[j].arguments = <<Arg("x", FieldRef(plan[1].id, "field1"))>>
         /\ task[i].args = <<Arg("x", results[plan[1].id])>>
         /\ task[j].args = <<Arg("x", results[plan[1].id].m["field1"])>>

\* C22: within one run of a plan with unique step IDs the results map is
\* append-only and the completed set only grows: an entry, once written, is
\* never overwritten or removed, and at every wave boundary the completed
\* set is the key set of the results map.
C22_AppendOnly ==
    /\ []((EngineRun /\ UniqueIds) => DOMAIN results = completed)
    /\ [][(EngineRun /\ UniqueIds)
            => /\ completed \subseteq completed'
               /\ DOMAIN results \subseteq DOMAIN results'
               /\ \A id \in DOMAIN results : results'[id] = results[id]
               /\ \A id \in DOMAIN results' \ DOMAIN results :
                    \E i \in Range(wave) : plan[i].id = id /\ results'[id] = task[i].result]_vars

\* The third wave runs with the entries of the first and the second in place.
C22_Witness ==
    /\ pc = "gather" /\ loop.waves = 3 /\ UniqueIds
    /\ Len(plan) = 3 /\ completed = {plan[1].id, plan[2].id}
    /\ DOMAIN results = completed
    /\ \E i \in Range(wave) : task[i].phase = "in_flight"
                              /\ task[i].args = <<Arg("x", results[plan[2].id])>>

\* C23: no step is retried or re-run.  In a run of a plan with unique step
\* IDs each step is launched at most once and its tool is invoked at most
\* once, in a successful run exactly once; a step that is in the completed
\* set is never put in a ready set again.
C23_NoRetry ==
    /\ []((EngineRun /\ UniqueIds)
            => /\ \A i \in Steps :
                    /\ task[i].ncalls <= 1
                    /\ Len(cb_start[i]) <= 1 /\ Len(cb_done[i]) <= 1
                    /\ plan[i].id \in completed
                         => /\ i \notin Range(executable_steps(completed))
                            /\ task[i].phase = "done" /\ task[i].ncalls = 1
               /\ pc = "gather" => \A i \in Range(wave) : plan[i].id \notin completed
               /\ pc = "returned" => \A i \in Steps : task[i].ncalls = 1)
    /\ [][(EngineRun /\ UniqueIds)
            => \A i \in Steps :
                 /\ task'[i].phase = "new" => task[i].phase \in {"idle", "new"}
                 /\ task'[i].ncalls > task[i].ncalls => task[i].ncalls = 0]_vars

\* A run of two waves under a limit of one has returned: one call per step.
C23_Witness ==
    /\ pc = "returned" /\ Len(plan) = MaxSteps /\ loop.waves = 2
    /\ max_concurrent = <<1>>
    /\ \A i \in Steps : task[i].ncalls = 1 /\ Len(cb_start[i]) = 1

\* Step i depends on step j: the ID of j is an entry of i's depends_on.
DependsOn(i, j) == plan[j].id \in Range(plan[i].depends_on)

\* The steps reached from the steps of S along depends_on, S included.
RECURSIVE Upstream(_)
Upstream(S) ==
    LET T == S \cup {j \in Steps : \E i \in S : DependsOn(i, j)}
    IN IF T = S THEN S ELSE Upstream(T)

\* Step i lies on a dependency cycle (a self-dependency is one).
OnCycle(i) == \E j \in Steps : DependsOn(i, j) /\ i \in Upstream({j})

\* Step i has a depends_on entry that is the ID of no step.
DependsOnAbsent(i) ==
    \E dep \in Range(plan[i].depends_on) : \A j \in Steps : plan[j].id # dep

\* Step i lies on a cycle or depends on an absent ID, or depends, directly
\* or through other steps, on a step that does.
Stuck(i) == \E j \in Upstream({i}) : OnCycle(j) \/ DependsOnAbsent(j)

\* The IDs the deadlock error reports.
Reported == {m[2] : m \in error.mentions}

\* C24: when the deadlock error is raised the step IDs it reports are
\* exactly the steps not in the completed set, and this set is exactly the
\* steps that lie on a dependency cycle, depend on an ID absent from the
\* plan, or transitively depend on such a step; every other step of the
\* plan has been executed before the failure is raised.
C24_DeadlockReportsStuck ==
    (EngineRun /\ error.kind = "deadlock")
        => /\ Reported = {plan[i].id : i \in {j \in Steps : plan[j].id \notin completed}}
           /\ Reported = {plan[i].id : i \in {j \in Steps : Stuck(j)}}
           /\ \A i \in Steps : ~Stuck(i) <=> (task[i].phase = "done" /\ task[i].ncalls = 1)

\* The same for the plans whose step IDs are unique.
C24_UniqueIdsDeadlock == UniqueIds => C24_DeadlockReportsStuck

\* A deadlock behind a wave: a cycle, a dangling entry and a step that waits
\* on the cycle are reported, the step that ran is not.
C24_StuckWitness ==
    /\ error.kind = "deadlock" /\ UniqueIds /\ Len(plan) = MaxSteps
    /\ \E i, j, k \in Steps :
         /\ task[i].phase = "done" /\ plan[i].id \notin Reported
         /\ OnCycle(j) /\ plan[j].id \in Reported
         /\ ~OnCycle(k) /\ Stuck(k) /\ plan[k].id \in Reported

\* The dependency graph of the plan has a cycle.
HasCycle == \E i \in Steps : OnCycle(i)

\* No step of the run has failed: not in resolution, not at the registry,
\* not in its tool.
NoStepFailed == \A i \in Steps : task[i].phase # "failed"

\* C25: the validator does not check for cycles.  For a plan with unique
\* step IDs that validate_execution_plan accepts and whose tools all
\* succeed, execute_plan fails with the deadlock error if and only if the
\* dependency graph contains a cycle, a self-dependency included; with an
\* acyclic graph it returns.
C25_CyclesLeftToEngine ==
    /\ (pc = "validated" /\ UniqueIds)
         => (errors = << >> <=> \A i \in Steps : ToolKnown(plan[i]) /\ ~DependsOnAbsent(i))
    /\ (EngineRun /\ UniqueIds /\ Accepted(plan) /\ NoStepFailed)
         => /\ \A i \in Steps : ~DependsOnAbsent(i)
            /\ HasCycle => pc # "returned"
            /\ ~HasCycle => error.kind # "deadlock"
            /\ Ended => /\ (pc = "failed" /\ error.kind = "deadlock") <=> HasCycle
                        /\ pc = "returned" <=> ~HasCycle

\* An accepted plan with a cycle behind a wave has ended in the deadlock.
C25_Witness ==
    /\ EngineRun /\ UniqueIds /\ Accepted(plan) /\ NoStepFailed
    /\ HasCycle /\ pc = "failed" /\ error.kind = "deadlock" /\ completed # {}
    /\ \E i \in Steps : DependsOn(i, i)

\* The validator has accepted a plan whose step depends on itself.
C25_ValidatorWitness ==
    /\ pc = "validated" /\ errors = << >> /\ Len(plan) = MaxValSteps
    /\ \E i \in Steps : DependsOn(i, i)

\* The steps that hold a slot.
Holders == {i \in Steps : Holding(i)}

\* The run is at a wave boundary: a wave has just been launched, or the loop
\* has ended in the return or in the deadlock error.
AtWaveBoundary ==
    \/ pc = "gather" /\ \A i \in Range(wave) : task[i].phase = "new"
    \/ pc = "returned"
    \/ pc = "failed" /\ error.kind = "deadlock"

\* C26: a concurrency slot is released whenever the step holding it
\* finishes, whether it succeeded or failed (resolution error, dispatch
\* error or tool exception); so with max_concurrent >= 1 and tools that
\* terminate every step queued in a wave is eventually admitted, first
\* queued first, and at every wave boundary all slots are free again.
C26_SlotsReleased ==
    /\ []((EngineRun /\ semaphore # << >>)
            => /\ semaphore[1] + Cardinality(Holders) = max_concurrent[1]
               /\ \A i \in Steps : task[i].phase = "queued" <=> i \in Range(waiters)
               /\ AtWaveBoundary => semaphore[1] = max_concurrent[1] /\ waiters = << >>)
    /\ [][\A i \in Steps :
             (task[i].phase = "queued" /\ task'[i].phase # "queued")
                 => /\ Head(waiters) = i /\ waiters' = Tail(waiters)
                    /\ Begun(i)']_vars
    /\ (waiters # << >>) ~> (waiters = << >>)

\* Under a limit of one a step whose tool is unknown has given its slot back
\* after get_tools(): the step queued behind it is in flight, a third waits.
C26_Witness ==
    /\ max_concurrent = <<1>> /\ semaphore = <<0>>
    /\ \E i, j, k \in Steps :
         /\ task[i].exc.kind = "tool_not_found"
         /\ task[j].phase = "in_flight"
         /\ task[k].phase = "queued"

\* Every step of a wave has failed in its own way and every slot is free.
C26_AllEndingsWitness ==
    /\ semaphore = max_concurrent /\ max_concurrent = <<1>> /\ Len(plan) = 3
    /\ task[1].exc.kind = "step_error"
    /\ task[2].exc.kind = "step_not_found"
    /\ task[3].exc.kind = "server_not_found"

\* What the first run had come to after its k-th segment.
FirstRunAt(k) ==
    LET q == twin.trace[k].proj
    IN [pc |-> q[1], results |-> q[2], wave |-> q[4], task |-> q[5],
        waiters |-> q[7], loop |-> q[10]]

\* How the first run ended.
FirstRunEnd == FirstRunAt(Len(twin.trace))

\* C27: the concurrency cap changes admission within a wave, not the waves.
\* A run under max_concurrent >= 1 and the run of the same plan without a
\* limit have the same waves (all ready steps are in the wave, also those
\* that queue for a slot), give the steps the same step numbers, and return
\* the same results; the one returns exactly when the other does.
C27_CapKeepsWaves ==
    (twin.mode = "uncapped" /\ twin.trace # << >>)
        => /\ \A k \in 1..Len(twin.trace) :
                (loop.waves >= 1 /\ FirstRunAt(k).loop.waves = loop.waves)
                    => /\ FirstRunAt(k).wave = wave
                       /\ \A i \in Range(wave) :
                            FirstRunAt(k).task[i].step_number = task[i].step_number
           /\ loop.waves <= FirstRunEnd.loop.waves
           /\ pc = "returned"
                => FirstRunEnd.pc = "returned" /\ FirstRunEnd.results = results
           /\ pc = "failed" => FirstRunEnd.pc = "failed"
           /\ Quiescent => loop.waves = FirstRunEnd.loop.waves

\* Under a limit of one a step of the wave had to queue; the run without the
\* limit has had both in flight together and has returned.
C27_Witness ==
    /\ twin.mode = "uncapped" /\ pc = "returned"
    /\ Len(plan) = MaxTwinSteps /\ Len(wave) = MaxTwinSteps
    /\ FirstRunEnd.pc = "returned"
    /\ \E k \in 1..Len(twin.trace) : FirstRunAt(k).waiters # << >>

\* The two runs of a plan of two waves with a failing step.
C27_FailedWitness ==
    /\ twin.mode = "uncapped" /\ pc = "failed" /\ loop.waves = 2
    /\ FirstRunEnd.pc = "failed"

\* C28: for every step of a plan with unique step IDs the index passed to
\* its completion callback is the step number that was passed to its start
\* callback, and the total passed is |steps| in both calls.
C28_SameNumberBothCalls ==
    (EngineRun /\ UniqueIds)
        => \A i \in Steps :
             /\ \A k \in 1..Len(cb_start[i]) : cb_start[i][k].total = Len(plan)
             /\ \A k \in 1..Len(cb_done[i]) :
                  /\ cb_done[i][k].total = Len(plan)
                  /\ Len(cb_start[i]) = 1
                  /\ cb_done[i][k].num = cb_start[i][1].num
                  /\ cb_done[i][k].num = task[i].step_number

\* The last step of a second wave of two has been reported done as number
\* |steps|, the number it started with.
C28_Witness ==
    /\ pc = "returned" /\ has_callback /\ UniqueIds
    /\ Len(plan) = MaxSteps /\ loop.waves = 2 /\ Len(wave) = 2
    /\ cb_start[wave[2]] = <<[num |-> MaxSteps, total |-> MaxSteps, result |-> None]>>
    /\ cb_done[wave[2]][1].num = MaxSteps
    /\ cb_done[wave[1]][1].num = MaxSteps - 1

\* Step i has just had its arguments resolved.
JustResolved(i) == ~Begun(i) /\ Begun(i)'

\* C29: argument resolution is pure.  Resolving a step's arguments leaves
\* the step's arguments mapping and the results map as they were, the
\* resolved values going into a new mapping; so the steps of the plan are
\* the same before and after execute_plan, and a step's raw arguments still
\* hold the reference strings when its tool has been called with the values.
C29_ResolutionIsPure ==
    /\ [][plan' = plan]_vars
    /\ [][(pc = "resolve_args" \/ \E i \in Steps : JustResolved(i)) => results' = results]_vars
    /\ [](pc = "args_resolved"
            => resolved = _resolve_arguments(plan[1].arguments, results))
    /\ []((EngineRun /\ UniqueIds)
            => \A i \in Steps : \A a \in 1..Len(plan[i].arguments) :
                 (task[i].ncalls > 0 /\ IsRef(plan[i].arguments[a].v))
                     => /\ task[i].args[a].v
                             = _resolve_variable(plan[i].arguments[a].v.s, results).val
                        /\ ~IsRef(task[i].args[a].v))

\* execute_plan has returned: the second step was called with the first
\* step's result and its arguments still read "$s1".
C29_Witness ==
    /\ pc = "returned" /\ Len(plan) = MaxSteps
    /\ plan[2].arguments = <<Arg("x", Ref("s1"))>>
    /\ task[2].args = <<Arg("x", results["s1"])>>
    /\ plan[3].arguments = <<Arg("x", FieldRef("s1", "field1"))>>
    /\ task[3].args = <<Arg("x", Str(<<"value1">>))>>

\* A list with a reference has been resolved on its own.
C29_ListWitness ==
    /\ pc = "args_resolved" /\ resolved.ok /\ results # NoResults
    /\ Len(plan[1].arguments) = 2
    /\ plan[1].arguments[1].v = ListV(<<Lit, Ref("s1")>>)
    /\ resolved.val[1].v = ListV(<<Lit, results["s1"]>>)
    /\ plan[1].arguments[2].v = FieldRef("s1", "field1")

\* v is written out: neither a string that begins with "$" nor a sequence.
IsLiteral(v) == ~IsRef(v) /\ v.t # "list"

\* The argument names of a mapping.
Names(args) == {args[a].k : a \in 1..Len(args)}

\* C30: an argument value that is neither a string beginning with "$" nor a
\* sequence is passed to the tool unchanged: numbers, booleans, strings not
\* starting with "$", and mappings, a mapping whose values are reference
\* strings included (these are not resolved); the argument names passed to
\* the tool are the argument names of the step.
C30_LiteralsPassThrough ==
    /\ (pc = "args_resolved" /\ resolved.ok)
         => /\ Names(resolved.val) = Names(plan[1].arguments)
            /\ Len(resolved.val) = Len(plan[1].arguments)
            /\ \A a \in 1..Len(plan[1].arguments) :
                 /\ resolved.val[a].k = plan[1].arguments[a].k
                 /\ IsLiteral(plan[1].arguments[a].v)
                      => resolved.val[a].v = plan[1].arguments[a].v
    /\ (pc = "args_resolved" /\ ~resolved.ok)
         => \E a \in 1..Len(plan[1].arguments) : ~IsLiteral(plan[1].arguments[a].v)
    /\ EngineRun
         => \A i \in Steps :
               task[i].ncalls > 0
                   => /\ Names(task[i].args) = Names(plan[i].arguments)
                      /\ \A a \in 1..Len(plan[i].arguments) :
                           IsLiteral(plan[i].arguments[a].v)
                               => task[i].args[a] = plan[i].arguments[a]

\* A mapping with "$s1" as a value and a boolean have come through as they
\* were, with s1 in the results map.
C30_Witness ==
    /\ pc = "args_resolved" /\ resolved.ok /\ "s1" \in DOMAIN results
    /\ plan[1].arguments = <<Arg("x", DictV([k |-> Ref("s1")])), Arg("y", BoolV(TRUE))>>
    /\ resolved.val = plan[1].arguments

\* A tool of the second wave is in flight with the literals of its step.
C30_CallWitness ==
    /\ pc = "gather" /\ loop.waves = 2
    /\ \E i \in Range(wave) :
         /\ task[i].phase = "in_flight"
         /\ plan[i].arguments = Literals(plan[1].id)
         /\ task[i].args = plan[i].arguments
         /\ plan[1].id \in DOMAIN results

\* Steps i and j were launched in the same wave.
SameWave(i, j) == task[i].wave_no >= 1 /\ task[i].wave_no = task[j].wave_no

\* C31: the completion callback of a step is invoked only after every step
\* of its wave has finished successfully and only after that step's result
\* is recorded in results, in plan order within the wave; if a step of a
\* wave fails, no completion callback is invoked for any step of that wave,
\* the steps whose tools returned included.
C31_CompletionAfterJoin ==
    /\ []((EngineRun /\ UniqueIds)
            => \A i \in Steps : \A k \in 1..Len(cb_done[i]) :
                 /\ plan[i].id \in cb_done[i][k].recorded
                 /\ Recorded(plan[i].id)
                 /\ cb_done[i][k].result = results[plan[i].id]
                 /\ \A j \in Steps :
                      SameWave(i, j)
                          => /\ task[j].phase = "done"
                             /\ j < i => /\ cb_done[j] # << >>
                                          /\ cb_done[j][1].num < cb_done[i][k].num
                                          /\ plan[j].id \in cb_done[i][k].recorded
                                          /\ plan[i].id \notin cb_done[j][1].recorded)
    /\ [](EngineRun
            => \A i, j \in Steps :
                 (SameWave(i, j) /\ task[j].phase = "failed") => cb_done[i] = << >>)
    /\ [][(EngineRun /\ cb_done' # cb_done)
            => /\ pc = "gather" /\ gather_exc = NoExc
               /\ \A j \in Range(wave) : task[j].phase = "done" /\ Len(cb_done'[j]) = 1
               /\ \A j \in Steps : j \notin Range(wave) => cb_done'[j] = cb_done[j]]_vars

\* The second wave has failed on one step while the tool of another had
\* returned: the first wave was reported, of the second no step is.
C31_Witness ==
    /\ pc = "failed" /\ has_callback /\ loop.waves = 2 /\ Len(wave) = 2
    /\ task[wave[1]].phase = "done" /\ cb_start[wave[1]] # << >>
    /\ task[wave[2]].phase = "failed"
    /\ \A j \in Range(wave) : cb_done[j] = << >>
    /\ \E i \in Steps : task[i].wave_no = 1 /\ Len(cb_done[i]) = 1

\* A wave of two has been reported, in plan order.
C31_OrderWitness ==
    /\ pc = "returned" /\ has_callback /\ Len(wave) = 2 /\ UniqueIds
    /\ cb_done[wave[1]][1].recorded = cb_done[wave[2]][1].recorded \ {plan[wave[2]].id}

\* The largest number of a set of naturals, 0 for the empty set.
Max(S) == IF S = {} THEN 0 ELSE CHOOSE n \in S : \A m \in S : m <= n

\* The depth of a step that is not stuck: 1 without dependencies, else one
\* more than the deepest step it depends on.
RECURSIVE Depth(_)
Depth(i) == 1 + Max({Depth(j) : j \in {k \in Steps : DependsOn(i, k)}})

\* The number of steps of the longest dependency chain of a plan in which
\* no step is stuck.
LongestChain == Max({Depth(i) : i \in Steps})

\* The largest wave number among the steps that step i depends on.
LastDependencyWave(i) == Max({task[j].wave_no : j \in {k \in Steps : DependsOn(i, k)}})

\* C32: each step executes in the wave whose number is its depth in the
\* dependency graph: wave 1 holds exactly the steps with empty depends_on,
\* a step with dependencies executes in wave 1 + the largest wave number
\* among its dependencies (in that wave and in no later one), and when no
\* step fails the run of an acyclic plan makes as many waves as its longest
\* dependency chain has steps.
C32_WaveIsDepth ==
    EngineRun
        => /\ loop.waves >= 1
                => {i \in Steps : task[i].wave_no = 1}
                     = {i \in Steps : plan[i].depends_on = << >>}
           /\ UniqueIds
                => /\ \A i \in Steps :
                        /\ task[i].wave_no <= loop.waves
                        /\ (task[i].wave_no >= 1 /\ plan[i].depends_on # << >>)
                             => /\ \A dep \in Range(plan[i].depends_on) :
                                      \E j \in Steps : plan[j].id = dep /\ task[j].wave_no >= 1
                                /\ task[i].wave_no = 1 + LastDependencyWave(i)
                        /\ (task[i].wave_no = 0 /\ plan[i].depends_on # << >>
                             /\ \A dep \in Range(plan[i].depends_on) :
                                   \E j \in Steps : plan[j].id = dep /\ task[j].wave_no >= 1)
                             => loop.waves <= LastDependencyWave(i)
                   /\ pc = "returned"
                        => /\ \A i \in Steps : ~Stuck(i)
                           /\ \A i \in Steps : task[i].wave_no = Depth(i)
                           /\ loop.waves = LongestChain

\* A step that depends on a step of wave 1 and on a step of wave 2 has run
\* in wave 3, and the run has returned after three waves.
C32_Witness ==
    /\ pc = "returned" /\ loop.waves = 3 /\ UniqueIds
    /\ \E i, j, k \in Steps :
         /\ DependsOn(i, j) /\ DependsOn(i, k)
         /\ task[j].wave_no = 1 /\ task[k].wave_no = 2 /\ task[i].wave_no = 3

\* Two steps of depth 2 behind one of depth 1: two waves for three steps.
C32_WideWitness ==
    /\ pc = "returned" /\ Len(plan) = 3 /\ loop.waves = 2 /\ LongestChain = 2
    /\ task[2].wave_no = 2 /\ task[3].wave_no = 2

\* The step named id ran in a wave strictly before the wave of step i.
InEarlierWave(id, i) ==
    \E j \in Steps : /\ plan[j].id = id
                     /\ task[j].wave_no >= 1
                     /\ task[j].wave_no < task[i].wave_no

\* Argument a of step i is a reference to a step of an earlier wave that
\* leads to a value.
FoundEarlier(i, a) ==
    LET v == plan[i].arguments[a].v
    IN IsRef(v) => /\ InEarlierWave(RefStep(v), i)
                   /\ Recorded(RefStep(v))
                   /\ Reaches(results[RefStep(v)], RefFields(v))

\* C33: whether a reference "$x" of step s resolves depends only on the
\* waves, never on the interleaving inside a wave: it resolves if and only
\* if x completed in a wave strictly before the wave of s.  So it resolves
\* when x is a direct or transitive dependency of s, and it fails with
\* step-not-found when x is in the wave of s or in a later one, also when
\* the tool of x has finished before s is dispatched.
C33_ResolvesIffEarlierWave ==
    EngineRun
        => \A i \in Steps : \A a \in 1..Len(plan[i].arguments) :
              LET v == plan[i].arguments[a].v
              IN (Dispatched(i) /\ IsRef(v))
                    => /\ InEarlierWave(RefStep(v), i)
                            => /\ Recorded(RefStep(v))
                               /\ ~StepNotFound(task[i].exc, v)
                               /\ (/\ RefFields(v) = << >>
                                   /\ \A b \in 1..Len(plan[i].arguments) : FoundEarlier(i, b))
                                    => /\ task[i].exc = NoExc \/ task[i].ncalls > 0
                                       /\ task[i].args[a].v = results[RefStep(v)]
                       /\ ~InEarlierWave(RefStep(v), i)
                            => /\ task[i].phase = "failed" /\ task[i].ncalls = 0
                               /\ (\A b \in 1..(a - 1) : FoundEarlier(i, b))
                                    => StepNotFound(task[i].exc, v)
                       /\ UniqueIds
                            => \A j \in Upstream({i}) \ {i} :
                                  plan[j].id = RefStep(v) => InEarlierWave(RefStep(v), i)

\* With one slot, the tool of a step has returned before the next step of
\* its wave is dispatched, and that step's reference to it is not found.
C33_Witness ==
    /\ max_concurrent = <<1>> /\ pc = "gather"
    /\ \E i, j \in Steps :
         /\ j < i /\ SameWave(i, j)
         /\ task[j].phase = "done" /\ task[j].result # None
         /\ plan[i].arguments = <<Arg("x", Ref(plan[j].id))>>
         /\ task[i].phase = "failed" /\ task[i].ncalls = 0
         /\ StepNotFound(task[i].exc, Ref(plan[j].id))

\* A step is called with the result of a step it depends on only through
\* another, and a step with the result of a step it does not depend on.
C33_TransitiveWitness ==
    /\ pc = "returned" /\ Len(plan) = 3
    /\ plan[3].depends_on = <<plan[2].id>> /\ plan[2].depends_on = <<plan[1].id>>
    /\ plan[3].arguments = <<Arg("x", Ref(plan[1].id))>>
    /\ task[3].args = <<Arg("x", results[plan[1].id])>>

C33_UndeclaredWitness ==
    /\ pc = "returned" /\ Len(plan) = 3
    /\ plan[1].depends_on = << >> /\ plan[2].depends_on = << >>
    /\ plan[3].depends_on = <<plan[2].id>>
    /\ plan[3].arguments = <<Arg("x", Ref(plan[1].id))>>
    /\ task[3].args = <<Arg("x", results[plan[1].id])>>

\* The validator has no "tool not found" error for step i, against the
\* catalog list_tool_schemas() returns.
PairAccepted(i) ==
    \A k \in 1..Len(validate_execution_plan(AsValidated(plan), list_tool_schemas)) :
        LET e == validate_execution_plan(AsValidated(plan), list_tool_schemas)[k]
        IN ~(e.kind = "tool_not_found" /\ e.step = plan[i].id)

\* The run is under the registry as the registry module defines it.
GatewayRun == EngineRun /\ SERVER_REGISTRY = GatewayRegistry

\* C34: the validator and the engine agree on which tools exist.  Every
\* (service_name, tool_name) pair that validate_execution_plan accepts
\* against the catalog of list_tool_schemas() is found by the engine's
\* dispatch through SERVER_REGISTRY, every pair the engine dispatches is
\* accepted by the validator, and a plan that passed validation never fails
\* with a server-not-found or tool-not-found error.
C34_ValidatorEngineAgree ==
    GatewayRun
        => /\ \A i \in Steps : PairAccepted(i) => ~DispatchFailed(i)
           /\ \A i \in Steps : task[i].ncalls > 0 => PairAccepted(i)
           /\ Validated(plan) => \A i \in Steps : ~DispatchFailed(i)

\* What holds of the two tables: a pair the validator accepts is never
\* short of its tool, it is short of its server exactly when the catalog
\* gives the tool to "gateway", and the engine dispatches every tool of the
\* gateway under each of the three names of SERVER_REGISTRY, the validator
\* accepting the one name the catalog gives the tool.
C34_AgreeUnderCatalogServer ==
    GatewayRun
        => \A i \in Steps :
             /\ PairAccepted(i)
                  => /\ plan[i].tool_name \in GatewayTools
                     /\ plan[i].service_name = tool_service_mapping(plan[i].tool_name)
                     /\ task[i].exc.kind # "tool_not_found"
                     /\ DispatchFailed(i) <=> (task[i].phase = "failed"
                                                /\ plan[i].service_name = "gateway")
             /\ task[i].ncalls > 0
                  => /\ plan[i].service_name \in DOMAIN SERVER_REGISTRY
                     /\ plan[i].tool_name \in GatewayTools
                     /\ PairAccepted(i)
                          <=> plan[i].service_name = tool_service_mapping(plan[i].tool_name)

\* A plan that passed validation has failed: the server "gateway", under
\* which the catalog lists get_gateway_info, is not in SERVER_REGISTRY.
C34_GatewayWitness ==
    /\ GatewayRun /\ pc = "failed" /\ Validated(plan) /\ Len(plan) = 2
    /\ plan[1].service_name = "gateway" /\ plan[1].tool_name = "get_gateway_info"
    /\ task[1].exc.kind = "server_not_found" /\ task[1].ncalls = 0
    /\ task[2].phase = "done"

\* The engine has called a tool under a server for which the validator
\* reports the pair as not found.
C34_CrossServerWitness ==
    /\ GatewayRun /\ pc = "returned" /\ Len(plan) = 1
    /\ plan[1].service_name = "syllabus_server" /\ plan[1].tool_name = "create_reminder"
    /\ task[1].ncalls = 1 /\ ~PairAccepted(1) /\ ~Validated(plan)

\* C35: a plan in which two steps share an ID is a reportable error, not a
\* silent success: validate_execution_plan reports it, and execute_plan on
\* such a plan never returns a results map that lacks one of the two
\* results (it rejects the plan before any tool is invoked, or it fails).
C35_DuplicateIdsReported ==
    /\ (pc = "validated" /\ ~UniqueIds) => errors # << >>
    /\ (EngineRun /\ ~UniqueIds) => pc # "returned"

\* What holds of the engine: on a plan with a repeated ID execute_plan
\* never returns, the loop's len(completed) staying below len(plan.steps),
\* and what the validator returns for such a plan is what it returns for
\* its tools and its depends_on entries.
C35_DuplicatesNeverReturn ==
    /\ (EngineRun /\ ~UniqueIds)
         => /\ pc # "returned"
            /\ Cardinality(completed) < Len(plan)
            /\ pc = "failed" => error # NoExc
    /\ (pc = "validated" /\ ~UniqueIds)
         => (errors = << >> <=> \A i \in Steps : ToolKnown(plan[i]) /\ Dangling(i) = {})

\* The validator has returned no error for two steps with one ID.
C35_SilentValidatorWitness ==
    /\ pc = "validated" /\ Len(plan) = 2 /\ plan[1].id = plan[2].id
    /\ errors = << >>

\* The plan the validator accepts has had both tools invoked, one result
\* kept, and has ended in the deadlock error with nothing reported.
C35_EngineWitness ==
    /\ pc = "failed" /\ Len(plan) = 2 /\ plan[1].id = plan[2].id
    /\ Accepted(plan)
    /\ task[1].ncalls = 1 /\ task[2].ncalls = 1
    /\ DOMAIN results = {plan[1].id}
    /\ error.kind = "deadlock" /\ Remaining(completed) = {}

\* C36: max_concurrent acts as a cap only when it is a positive integer.
\* With None no limit applies, and with 0 the engine creates no semaphore,
\* no step ever waits for a slot, the run ends, and it goes exactly as the
\* run with None: every schedule of the run with 0 is a schedule of the run
\* with None, with the same waves, results and outcome at every segment.
C36_ZeroIsNone ==
    /\ (max_concurrent \in {<< >>, <<0>>} /\ twin.mode \in {"first", "none"})
         => /\ semaphore = << >> /\ waiters = << >>
            /\ \A i \in Steps : task[i].phase # "queued"
            /\ \A i \in Steps :
                  /\ task[i].phase = "new"
                       => \E j \in Range(wave) : task[j].phase = "new" /\ ENABLED TaskRun(j)
                  /\ (task[i].phase = "get_tools" /\ FirstSegmentsRun)
                       => ENABLED TaskInvoke(i)
                  /\ (task[i].phase = "in_flight" /\ FirstSegmentsRun)
                       => ENABLED TaskFinish(i)
            /\ Quiescent => pc \in {"returned", "failed"}
    /\ twin.mode = "none"
         => /\ max_concurrent = << >>
            /\ twin.pos >= 1 => Proj = twin.trace[twin.pos].proj
            /\ twin.pos < Len(twin.trace) => ENABLED Act(twin.trace[twin.pos + 1].a)
            /\ twin.pos = Len(twin.trace) => Quiescent

\* With max_concurrent=0 two tools of a wave are running at once.
C36_Witness ==
    /\ twin.mode = "first" /\ max_concurrent = <<0>> /\ pc = "gather"
    /\ \E i, j \in Steps : i # j /\ InFlight(i) /\ InFlight(j)

\* The run with None has followed a run with 0 that made two waves to its
\* end.
C36_ReplayWitness ==
    /\ twin.mode = "none" /\ twin.pos = Len(twin.trace) /\ twin.pos > 0
    /\ pc = "returned" /\ loop.waves = 2 /\ Len(plan) = MaxTwinSteps

\* C37: for a plan with no steps execute_plan returns the empty results
\* map immediately: the loop's body is never entered, no tool is invoked,
\* no progress callback is called and the deadlock error is not raised.
C37_EmptyPlanReturns ==
    (EngineRun /\ plan = << >>)
        => /\ pc \in {"start", "returned"}
           /\ pc = "start" => ENABLED Start
           /\ results = NoResults /\ completed = {}
           /\ error = NoExc /\ gather_exc = NoExc
           /\ loop = NoLoop /\ wave = << >>
           /\ DOMAIN task = {} /\ DOMAIN cb_start = {} /\ DOMAIN cb_done = {}

\* The call with a callback and a limit has returned for the empty plan.
C37_Witness ==
    /\ plan = << >> /\ pc = "returned" /\ results = NoResults
    /\ has_callback /\ max_concurrent = <<1>>

====
